---------------------------- MODULE Spec2Model ----------------------------
(***************************************************************************)
(* sgram-tui: the streaming pipeline (input -> resample -> spectral        *)
(* transform -> bounded row channel -> history buffer) and the consumer    *)
(* loop, as a state machine.                                               *)
(*                                                                         *)
(* Number model.  Samples are integers.  The resampler's position is an    *)
(* f32, held as an integer multiple of 2^-26 and rounded as f32 rounds;    *)
(* its ratio dst_sr/src_sr is a fraction that f32 holds exactly; an        *)
(* interpolated sample is kept to 1/16 of the step between its neighbours. *)
(* Zoom is kept in quarters (zoom = zoom4/4): the keys move it by 0.25.    *)
(* The window, the FFT of the external library and log10 are not           *)
(* computed: a bin's dB value is a whole number, -240 for an all-zero      *)
(* frame and otherwise the code BinValue of the padded frame it was        *)
(* computed from and its bin index; where the values matter the rows in dB *)
(* are drawn from a set of levels.  Time is counted in sample periods of   *)
(* the target rate.                                                        *)
(*                                                                         *)
(* Left out: drawing, the colours of the palettes, the dB ceiling, the     *)
(* image a PNG export writes and the rows-per-second statistics.  The      *)
(* coefficient of pre-emphasis is a whole number.  A typed path is the     *)
(* sequence of the characters typed; an export to the empty path fails,    *)
(* and one to a typed path succeeds or fails as the file system decides.   *)
(***************************************************************************)
EXTENDS Integers, Sequences, FiniteSets, TLC

VARIABLES
    cli,          \* the parsed command line: [fft, win, hop, history, zoom4,
                  \*   sample_rate, realtime, floor, palette, style,
                  \*   pre_emphasis] and the two Settings fields main does not
                  \*   set: [clamp_floor, normalize]
    wav,          \* the input file: [frames, channels, src_sr, open_ok, bad_at]
    dev,          \* the capture device: [ok, sr, buf_len]
    input_kind,   \* "wav" | "mic"
    settings,     \* Settings, as main builds it
    running,      \* App.running
    paused,       \* App.paused
    zoom,         \* App.zoom, in quarters
    buffer,       \* App.buffer, newest row first
    max_history,  \* App.max_history
    total_rows,   \* App.total_rows
    cpc,          \* the consumer loop's position: "poll" | "tick" | "drain" | "exited"
    drained,      \* ui::run: drained
    keys,         \* key events handled so far
    wpc,          \* the worker's position
    phase,        \* "loop" (reading the file) | "flush" (after the last sample)
    spec,         \* the worker's Spectrogram: [fft_size, frame_len, hop, db_floor,
                  \*   clamp_floor, normalize, pre_emph, prev_sample, overlap_buf]
    rd,           \* interleaved file samples read so far
    sum,          \* run_wav: sum
    cnt,          \* run_wav: cnt
    src_buf,      \* run_wav / run_mic: src_buf
    src_pos,      \* run_wav / run_mic: src_pos, an f32 in units of 2^-26
    out_buf,      \* run_wav / run_mic: out_buf
    blk,          \* length of the chunk handed to on_block
    mic_buf,      \* run_mic: buf[offset..], the part of buf not yet forwarded
    rows,         \* on_block: the rows still to send (for row in rows)
    chan,         \* the row channel (spectrogram_tx / spectrogram_rx)
    raw,          \* run_mic: the raw-audio queue (tx / rx)
    captured,     \* capture callbacks invoked so far
    last_cb,      \* history: the last callback, [n, full, stalled]
    mic_recv,     \* history: the callback numbers of the buffers the worker received
    produced,     \* history: every row process_samples returned, in order
    pushed,       \* history: per push_row call, [row, zoom]
    db_floor,     \* App.db_floor
    palette,      \* App.palette
    style,        \* App.style
    csv,          \* history: the save_csv calls, each [ok, records, path]
    mode,         \* ui::run: mode, [kind, input]
    key,          \* the key event handled in this turn of the loop
    png,          \* history: the save_png calls, each [path, written, ok]
    emitted,      \* run_wav: emitted_samples
    clock,        \* start.elapsed() when throttle_realtime last returned
    th,           \* history: the last throttle_realtime call, [target, elapsed, slept]
    fed,          \* history: every chunk handed to on_block, in order
    raw_rows      \* history: every row before normalize and clamp, in order

vars == << cli, wav, dev, input_kind, settings, running, paused, zoom, buffer,
           max_history, total_rows, cpc, drained, keys, wpc, phase,
           spec, rd, sum, cnt, src_buf, src_pos, out_buf, blk, mic_buf, rows,
           chan, raw, captured, last_cb, mic_recv, produced, pushed,
           db_floor, palette, style, csv, mode, key, png, emitted, clock, th,
           fed, raw_rows >>

appVars == << running, paused, zoom, buffer, max_history, total_rows, cpc, drained,
              keys, pushed >>

decodeVars == << rd, sum, cnt, src_buf, src_pos, out_buf, mic_buf >>

micVars == << raw, captured, last_cb, mic_recv >>

cfgVars == << cli, wav, dev, input_kind, settings >>

viewVars == << db_floor, palette, style, csv, mode, key, png >>

paceVars == << emitted, clock, th >>

-----------------------------------------------------------------------------
(* Program constants *)

ChannelCap == 64

RawQueueCap == 64

Block == 1024

MinFft == 16

MinFrame == 16

MinHistory == 16

DrainLimit == 1024

ZoomMin4 == 4

ZoomMax4 == 256

NoWin == 0 - 1

(* Bounds of the model *)

MaxKeys == 1

MaxExports == 1

MaxInput == 1

MaxDbRows == 1

MaxCaptures == 66

-----------------------------------------------------------------------------
(* Helpers *)

Min(a, b) == IF a < b THEN a ELSE b

Max(a, b) == IF a > b THEN a ELSE b

Clamp(x, lo, hi) == IF x < lo THEN lo ELSE IF x > hi THEN hi ELSE x

Drop(s, n) == SubSeq(s, n + 1, Len(s))

Take(s, n) == SubSeq(s, 1, Min(n, Len(s)))

IsPrefix(s, t) == Len(s) <= Len(t) /\ s = SubSeq(t, 1, Len(s))

-----------------------------------------------------------------------------
(* main: Settings from the command line *)

(* Variant: the fft size taken as requested, without the floor of 16 *)
MainSettingsUnclamped(c) ==
    [ fft_size   |-> c.fft,
      hop_size   |-> Min(Max(c.hop, 1), Max(c.fft, MinFft)),
      window_len |-> Max(Min(IF c.win = NoWin THEN c.fft ELSE c.win, c.fft), MinFft),
      sample_rate |-> c.sample_rate,
      history    |-> c.history,
      zoom       |-> Max(c.zoom4, ZoomMin4),
      db_floor   |-> c.floor,
      palette    |-> c.palette,
      style      |-> c.style,
      realtime   |-> c.realtime,
      clamp_floor |-> c.clamp_floor,
      normalize  |-> c.normalize,
      pre_emphasis |-> c.pre_emphasis ]

(* The Settings literal of main, for the resolution preset Medium *)
MainSettings(c) ==
    [ fft_size   |-> Max(c.fft, MinFft),
      hop_size   |-> Min(Max(c.hop, 1), Max(c.fft, MinFft)),
      window_len |-> Max(Min(IF c.win = NoWin THEN c.fft ELSE c.win, c.fft), MinFft),
      sample_rate |-> c.sample_rate,
      history    |-> c.history,
      zoom       |-> Max(c.zoom4, ZoomMin4),
      db_floor   |-> c.floor,
      palette    |-> c.palette,
      style      |-> c.style,
      realtime   |-> c.realtime,
      clamp_floor |-> c.clamp_floor,
      normalize  |-> c.normalize,
      pre_emphasis |-> c.pre_emphasis ]

(* App::new: the frame length and hop handed to the builder *)

AppFrameLen(s) == Max(Min(s.window_len, s.fft_size), MinFrame)

AppHop(s) == Max(Min(s.hop_size, AppFrameLen(s)), 1)

(* Variant: the history length taken as requested *)
AppMaxHistoryUnclamped(s) == s.history

AppMaxHistory(s) == Max(s.history, MinHistory)

(* Option<f32>: None, and Some(beta) *)
NoPreEmph == [ some |-> FALSE, beta |-> 0 ]

PreEmph(b) == [ some |-> TRUE, beta |-> b ]

(* SpectrogramBuilder::new(..).build() *)

Build(fft_size, frame_len, hop) ==
    [ fft_size    |-> fft_size,
      frame_len   |-> frame_len,
      hop         |-> Max(Min(hop, frame_len), 1),
      db_floor    |-> 0 - 80,
      clamp_floor |-> FALSE,
      normalize   |-> FALSE,
      pre_emph    |-> NoPreEmph,
      prev_sample |-> 0,
      overlap_buf |-> << >> ]

-----------------------------------------------------------------------------
(* Spectrogram::process_samples *)

(* Variant of Ingest: the retained sample starts from 0 in every call *)
IngestRestart(sp, samples) ==
    IF sp.pre_emph.some /\ Len(samples) > 0
    THEN [ sp EXCEPT
             !.overlap_buf = @ \o [ i \in 1..Len(samples) |->
                 samples[i] - sp.pre_emph.beta *
                     (IF i = 1 THEN 0 ELSE samples[i - 1]) ],
             !.prev_sample = samples[Len(samples)] ]
    ELSE [ sp EXCEPT !.overlap_buf = @ \o samples ]

(* The samples enter the overlap buffer: y = x - beta * prev_sample, and *)
(* prev_sample becomes x, sample by sample; unchanged with no coefficient *)
Ingest(sp, samples) ==
    IF sp.pre_emph.some /\ Len(samples) > 0
    THEN [ sp EXCEPT
             !.overlap_buf = @ \o [ i \in 1..Len(samples) |->
                 samples[i] - sp.pre_emph.beta *
                     (IF i = 1 THEN sp.prev_sample ELSE samples[i - 1]) ],
             !.prev_sample = samples[Len(samples)] ]
    ELSE [ sp EXCEPT !.overlap_buf = @ \o samples ]

(* tmp: the frame, zero-padded to fft_size *)
Padded(sp, frame) ==
    [ i \in 1..sp.fft_size |-> IF i <= sp.frame_len THEN frame[i] ELSE 0 ]

(* The dB value of bin i, as a code of the padded frame and the bin index *)
BinValue(sp, tmp, i) ==
    (tmp[1] + tmp[Min(sp.frame_len, sp.fft_size)]) * sp.fft_size + (i - 1)

(* Variant: the row length taken from the frame length *)
NBinsOfFrame(sp) == sp.frame_len \div 2

NBins(sp) == sp.fft_size \div 2

(* 20 log10(1e-12) = 10 log10(1e-24): every bin of an all-zero frame *)
SilenceDb == 0 - 240

Silent(tmp) == \A j \in 1..Len(tmp) : tmp[j] = 0

(* The row in dB, before normalize and clamp *)
RawRow(sp, frame) ==
    LET tmp == Padded(sp, frame)
    IN  IF Silent(tmp)
        THEN [ i \in 1..NBins(sp) |-> SilenceDb ]
        ELSE [ i \in 1..NBins(sp) |-> BinValue(sp, tmp, i) ]

RowMax(row) == CHOOSE m \in { row[i] : i \in 1..Len(row) } :
                  \A i \in 1..Len(row) : row[i] <= m

RowMin(row) == CHOOSE m \in { row[i] : i \in 1..Len(row) } :
                  \A i \in 1..Len(row) : row[i] >= m

(* Variant of Normalized: the minimum of the row is subtracted *)
NormalizedByMin(row) == [ i \in 1..Len(row) |-> row[i] - RowMin(row) ]

(* if self.normalize: for v in &mut row { *v -= mx } *)
Normalized(row) ==
    IF row = << >> THEN row
    ELSE [ i \in 1..Len(row) |-> row[i] - RowMax(row) ]

(* if self.clamp_floor: if *v < self.db_floor { *v = self.db_floor } *)
Clamped(row, floor) ==
    [ i \in 1..Len(row) |-> IF row[i] < floor THEN floor ELSE row[i] ]

(* Variant of PostProcess: the clamp comes before the normalization *)
PostProcessClampFirst(sp, r) ==
    LET c == IF sp.clamp_floor THEN Clamped(r, sp.db_floor) ELSE r
    IN  IF sp.normalize THEN Normalized(c) ELSE c

PostProcess(sp, r) ==
    LET n == IF sp.normalize THEN Normalized(r) ELSE r
    IN  IF sp.clamp_floor THEN Clamped(n, sp.db_floor) ELSE n

Row(sp, frame) == PostProcess(sp, RawRow(sp, frame))

-----------------------------------------------------------------------------
(* resample_drain, with ratio = num/den *)

(* ratio = dst_sr / src_sr as the reduced fraction RatioNum / RatioDen *)

RECURSIVE Gcd(_, _)
Gcd(a, b) == IF b = 0 THEN a ELSE Gcd(b, a % b)

RatioNum(dst_sr, src_sr) == dst_sr \div Gcd(dst_sr, src_sr)

RatioDen(dst_sr, src_sr) == src_sr \div Gcd(dst_sr, src_sr)

(* f32 arithmetic on non-negative values, a value x held as the integer *)
(* x * 2^26: 24 significant bits, round to nearest, ties to even.        *)
F32Unit == 2^26

F32Mant == 2^24

(* The unit in the last place of x: the least power of two q with x / q < 2^24 *)
RECURSIVE Ulp(_, _)
Ulp(x, q) == IF x \div q < F32Mant THEN q ELSE Ulp(x, 2 * q)

(* The f32 nearest to x + rest, where 0 <= rest < 1 is given by its kind: *)
(* -1 below one half, 0 one half, 1 above one half, and 2 for rest = 0    *)
F32Round[x \in Nat, rest \in (0 - 1) .. 2] ==
    LET q    == Ulp(x, 1)
        low  == x % q
        down == x - low
        up   == \/ 2 * low > q
                \/ 2 * low = q /\ rest # 2
                \/ 2 * low = q /\ rest = 2 /\ (down \div q) % 2 = 1
                \/ q = 1 /\ rest = 1
                \/ q = 1 /\ rest = 0 /\ down % 2 = 1
    IN  IF up THEN down + q ELSE down

(* a + b in f32 *)
F32Add(a, b) == F32Round[a + b, 2]

(* a / b in f32, a and b small integers *)
F32Div(a, b) ==
    LET n   == a * F32Unit
        rem == n % b
    IN  F32Round[n \div b,
                 IF rem = 0 THEN 2
                 ELSE IF 2 * rem < b THEN 0 - 1
                 ELSE IF 2 * rem = b THEN 0 ELSE 1]

(* A step that is the ratio itself *)
StepIsRatio(num, den) == F32Div(num, den)

(* step = 1.0 / ratio, for a ratio num/den that f32 holds exactly *)
Step(num, den) == F32Div(den, num)

(* The interpolated sample, kept to 1/16 of a sample step *)
InterpScale == 2^4

Interp(s0, s1, frac) ==
    s0 * InterpScale + (s1 - s0) * (frac \div (F32Unit \div InterpScale))

(* Variant of DrainLoop: the loop runs while pos < len *)
RECURSIVE DrainLoopWide(_, _, _, _, _)
DrainLoopWide(num, den, sb, pos, ob) ==
    IF pos < Len(sb) * F32Unit
    THEN LET i0   == pos \div F32Unit
             frac == pos - i0 * F32Unit
         IN  IF i0 + 2 > Len(sb)
             THEN [ pos |-> pos, out |-> ob, panic |-> TRUE ]
             ELSE DrainLoopWide(num, den, sb, F32Add(pos, Step(num, den)),
                                Append(ob, Interp(sb[i0 + 1], sb[i0 + 2], frac)))
    ELSE [ pos |-> pos, out |-> ob, panic |-> FALSE ]

(* while *src_pos + 1.0 < src_buf.len() as f32: src_buf[i0] and           *)
(* src_buf[i0 + 1] are read, and an index past the end panics             *)
RECURSIVE DrainLoop(_, _, _, _, _)
DrainLoop(num, den, sb, pos, ob) ==
    IF F32Add(pos, F32Unit) < Len(sb) * F32Unit
    THEN LET i0   == pos \div F32Unit
             frac == pos - i0 * F32Unit
         IN  IF i0 + 2 > Len(sb)
             THEN [ pos |-> pos, out |-> ob, panic |-> TRUE ]
             ELSE DrainLoop(num, den, sb, F32Add(pos, Step(num, den)),
                            Append(ob, Interp(sb[i0 + 1], sb[i0 + 2], frac)))
    ELSE [ pos |-> pos, out |-> ob, panic |-> FALSE ]

(* Variant of ResampleDrain: the prefix is discarded up to the position, *)
(* the sample under it included                                          *)
ResampleDrainNoneKept(num, den, sb, pos, ob) ==
    IF Len(sb) < 2 \/ num <= 0
    THEN [ src_buf |-> sb, src_pos |-> pos, out_buf |-> ob, panic |-> FALSE ]
    ELSE LET d        == DrainLoop(num, den, sb, pos, ob)
             consumed == d.pos \div F32Unit + 1
         IN  IF ~d.panic /\ consumed > 0 /\ consumed < Len(sb)
             THEN [ src_buf |-> Drop(sb, consumed),
                    src_pos |-> d.pos - (consumed - 1) * F32Unit,
                    out_buf |-> d.out, panic |-> FALSE ]
             ELSE [ src_buf |-> sb, src_pos |-> d.pos, out_buf |-> d.out,
                    panic |-> d.panic ]

ResampleDrain(num, den, sb, pos, ob) ==
    IF Len(sb) < 2 \/ num <= 0
    THEN [ src_buf |-> sb, src_pos |-> pos, out_buf |-> ob, panic |-> FALSE ]
    ELSE LET d        == DrainLoop(num, den, sb, pos, ob)
             consumed == d.pos \div F32Unit
         IN  IF ~d.panic /\ consumed > 0 /\ consumed < Len(sb)
             THEN [ src_buf |-> Drop(sb, consumed),
                    src_pos |-> d.pos - consumed * F32Unit,
                    out_buf |-> d.out, panic |-> FALSE ]
             ELSE [ src_buf |-> sb, src_pos |-> d.pos, out_buf |-> d.out,
                    panic |-> d.panic ]

-----------------------------------------------------------------------------
(* App::push_row *)

(* Variant: bins / zoom truncated *)
ZoomTakeFloor(bins, z4) == (4 * bins) \div z4

(* round(bins / zoom), zoom = z4/4: round half away from zero *)
ZoomTake(bins, z4) == (8 * bins + z4) \div (2 * z4)

Truncate(row, n) == IF n < Len(row) THEN SubSeq(row, 1, n) ELSE row

(* Variant: eviction of the newest rows *)
RECURSIVE EvictFront(_, _)
EvictFront(buf, maxh) ==
    IF Len(buf) > maxh THEN EvictFront(Tail(buf), maxh) ELSE buf

(* while self.buffer.len() > self.max_history { pop_back } *)
RECURSIVE Evict(_, _)
Evict(buf, maxh) ==
    IF Len(buf) > maxh THEN Evict(SubSeq(buf, 1, Len(buf) - 1), maxh) ELSE buf

PushRow(buf, z4, maxh, row, bins) ==
    LET take == ZoomTake(bins, z4)
        kept == Truncate(row, Max(take, 1))
    IN  Evict(<< kept >> \o buf, maxh)

(* Variant of AdjustZoom: no clamp *)
AdjustZoomUnclamped(z4, d4) == z4 + d4

(* App::adjust_zoom(delta), delta in quarters *)
AdjustZoom(z4, d4) == Clamp(z4 + d4, ZoomMin4, ZoomMax4)

-----------------------------------------------------------------------------
(* The input file: every channel of frame f holds the sample f (a ramp).   *)
(* The capture device: callback n delivers buf_len mono samples, the ramp  *)
(* continued.                                                              *)

WavSample(i) == i \div wav.channels

WavLen == wav.frames * wav.channels

MicBuffer(n) == [ i \in 1..dev.buf_len |-> n * dev.buf_len + (i - 1) ]

-----------------------------------------------------------------------------
(* Initial state: main has built Settings, App::new has spawned the worker *)

NoBad == 0 - 1

InitOf(sc) ==
    /\ cli = sc.cli
    /\ wav = sc.wav
    /\ dev = sc.dev
    /\ input_kind = sc.kind
    /\ settings = MainSettings(sc.cli)
    /\ running = TRUE
    /\ paused = FALSE
    /\ zoom = MainSettings(sc.cli).zoom
    /\ buffer = << >>
    /\ max_history = AppMaxHistory(MainSettings(sc.cli))
    /\ total_rows = 0
    /\ cpc = "poll"
    /\ drained = 0
    /\ keys = 0
    /\ wpc = "start"
    /\ phase = "loop"
    /\ spec = Build(0, 0, 0)
    /\ rd = 0
    /\ sum = 0
    /\ cnt = 0
    /\ src_buf = << >>
    /\ src_pos = 0
    /\ out_buf = << >>
    /\ blk = 0
    /\ mic_buf = << >>
    /\ rows = << >>
    /\ chan = << >>
    /\ raw = << >>
    /\ captured = 0
    /\ last_cb = [ n |-> NoBad, full |-> FALSE, stalled |-> FALSE ]
    /\ mic_recv = << >>
    /\ produced = << >>
    /\ pushed = << >>
    /\ db_floor = MainSettings(sc.cli).db_floor
    /\ palette = MainSettings(sc.cli).palette
    /\ style = MainSettings(sc.cli).style
    /\ csv = << >>
    /\ mode = [ kind |-> "Normal", input |-> << >> ]
    /\ key = "None"
    /\ png = << >>
    /\ emitted = 0
    /\ clock = 0
    /\ th = [ target |-> 0, elapsed |-> 0, slept |-> 0 ]
    /\ fed = << >>
    /\ raw_rows = << >>

DefaultCli == [ fft |-> 16, win |-> NoWin, hop |-> 1, history |-> 0,
                zoom4 |-> 4, sample_rate |-> 48000, realtime |-> FALSE,
                floor |-> 0 - 80, palette |-> "Viridis", style |-> "Waterfall",
                clamp_floor |-> FALSE, normalize |-> FALSE,
                pre_emphasis |-> NoPreEmph ]

DefaultWav == [ frames |-> 82, channels |-> 1, src_sr |-> 48000,
                open_ok |-> TRUE, bad_at |-> NoBad ]

DefaultDev == [ ok |-> TRUE, sr |-> 48000, buf_len |-> 80 ]

Scenario(c, w) == [ kind |-> "wav", cli |-> c, wav |-> w, dev |-> DefaultDev ]

MicScenario(c, d) == [ kind |-> "mic", cli |-> c, wav |-> DefaultWav, dev |-> d ]

(* Files whose rows overfill the row channel (66 rows), files of more than *)
(* one block, and files that fail at open or while decoding.               *)
Scenarios ==
    { Scenario(DefaultCli, DefaultWav),
      Scenario([ DefaultCli EXCEPT !.sample_rate = 96000 ],
               [ DefaultWav EXCEPT !.frames = 42, !.channels = 2 ]),
      Scenario([ DefaultCli EXCEPT !.fft = 256, !.hop = 256 ],
               [ DefaultWav EXCEPT !.frames = 1300 ]),
      Scenario([ DefaultCli EXCEPT !.fft = 256, !.hop = 256 ],
               [ DefaultWav EXCEPT !.frames = 1100, !.bad_at = 1060 ]),
      Scenario(DefaultCli, [ DefaultWav EXCEPT !.open_ok = FALSE ]),
      MicScenario(DefaultCli, [ DefaultDev EXCEPT !.ok = FALSE ]) }

Init == \E sc \in Scenarios : InitOf(sc)

-----------------------------------------------------------------------------
(* The worker thread: App::new's closure, run_input_pipeline, run_wav *)

WorkerStart ==
    /\ wpc = "start"
    /\ spec' = [ Build(settings.fft_size, AppFrameLen(settings), AppHop(settings))
                   EXCEPT !.db_floor = settings.db_floor,
                          !.clamp_floor = settings.clamp_floor,
                          !.normalize = settings.normalize,
                          !.pre_emph = settings.pre_emphasis ]
    /\ wpc' = IF input_kind = "wav"
              THEN IF wav.open_ok THEN "read" ELSE "failed"
              ELSE IF dev.ok THEN "recv" ELSE "failed"
    /\ phase' = IF input_kind = "wav" THEN "loop" ELSE "mic"
    /\ UNCHANGED << cfgVars, viewVars, paceVars, fed, raw_rows, appVars, decodeVars, micVars, blk, rows, chan,
                    produced >>

(* Variant of WavRead: a sample that fails to decode is skipped *)
WavReadSkipError ==
    /\ wpc = "read"
    /\ rd < WavLen
    /\ IF wav.bad_at = rd
       THEN /\ wpc' = "read"
            /\ rd' = rd + 1
            /\ UNCHANGED << sum, cnt, src_buf, src_pos, out_buf, mic_buf >>
       ELSE LET v    == WavSample(rd)
                full == (cnt + 1 = wav.channels)
                sb   == IF full
                        THEN Append(src_buf, (sum + v) \div wav.channels)
                        ELSE src_buf
                r    == ResampleDrain(RatioNum(settings.sample_rate, wav.src_sr),
                                      RatioDen(settings.sample_rate, wav.src_sr),
                                      sb, src_pos, out_buf)
            IN  /\ rd' = rd + 1
                /\ sum' = IF full THEN 0 ELSE sum + v
                /\ cnt' = IF full THEN 0 ELSE cnt + 1
                /\ src_buf' = r.src_buf
                /\ src_pos' = r.src_pos
                /\ out_buf' = r.out_buf
                /\ wpc' = IF r.panic THEN "failed"
                          ELSE IF Len(r.out_buf) >= Block THEN "emit" ELSE "read"
                /\ UNCHANGED mic_buf
    /\ UNCHANGED << cfgVars, viewVars, paceVars, fed, raw_rows, appVars, micVars, phase, spec, blk, rows, chan,
                    produced >>

(* One iteration of "for s in reader.samples()", up to the while loop *)
WavRead ==
    /\ wpc = "read"
    /\ rd < WavLen
    /\ IF wav.bad_at = rd
       THEN /\ wpc' = "failed"
            /\ UNCHANGED decodeVars
       ELSE LET v    == WavSample(rd)
                full == (cnt + 1 = wav.channels)
                sb   == IF full
                        THEN Append(src_buf, (sum + v) \div wav.channels)
                        ELSE src_buf
                r    == ResampleDrain(RatioNum(settings.sample_rate, wav.src_sr),
                                      RatioDen(settings.sample_rate, wav.src_sr),
                                      sb, src_pos, out_buf)
            IN  /\ rd' = rd + 1
                /\ sum' = IF full THEN 0 ELSE sum + v
                /\ cnt' = IF full THEN 0 ELSE cnt + 1
                /\ src_buf' = r.src_buf
                /\ src_pos' = r.src_pos
                /\ out_buf' = r.out_buf
                /\ wpc' = IF r.panic THEN "failed"
                          ELSE IF Len(r.out_buf) >= Block THEN "emit" ELSE "read"
                /\ UNCHANGED mic_buf
    /\ UNCHANGED << cfgVars, viewVars, paceVars, fed, raw_rows, appVars, micVars, phase, spec, blk, rows, chan,
                    produced >>

(* End of the file: the flush after the match *)
WavEof ==
    /\ wpc = "read"
    /\ rd >= WavLen
    /\ LET r == ResampleDrain(RatioNum(settings.sample_rate, wav.src_sr),
                              RatioDen(settings.sample_rate, wav.src_sr),
                              src_buf, src_pos, out_buf)
       IN  /\ src_buf' = r.src_buf
           /\ src_pos' = r.src_pos
           /\ out_buf' = r.out_buf
           /\ wpc' = IF r.panic THEN "failed" ELSE "emit"
    /\ phase' = "flush"
    /\ UNCHANGED << cfgVars, viewVars, paceVars, fed, raw_rows, appVars, micVars, rd, sum, cnt, mic_buf, spec,
                    blk, rows, chan, produced >>

(* The loops around on_block: which samples go to process_samples next *)
MicSameRate == RatioNum(settings.sample_rate, dev.sr) = RatioDen(settings.sample_rate, dev.sr)

Pending == IF phase = "mic" /\ MicSameRate THEN mic_buf ELSE out_buf

ChunkLen ==
    IF phase = "loop"
    THEN IF Len(out_buf) >= Block THEN Block ELSE 0
    ELSE Min(Len(Pending), Block)

Emit ==
    /\ wpc = "emit"
    /\ IF ChunkLen > 0
       THEN /\ spec' = Ingest(spec, SubSeq(Pending, 1, ChunkLen))
            /\ fed' = Append(fed, SubSeq(Pending, 1, ChunkLen))
            /\ blk' = ChunkLen
            /\ wpc' = "frame"
       ELSE /\ wpc' = IF phase = "loop" THEN "read"
                      ELSE IF phase = "mic" THEN "recv" ELSE "done"
            /\ UNCHANGED << spec, blk, fed >>
    /\ UNCHANGED << cfgVars, viewVars, paceVars, raw_rows, appVars, decodeVars, micVars, phase, rows, chan,
                    produced >>

(* Variant of ProcessFrame: the transform reads the dB floor of the App *)
ProcessFrameSharedFloor ==
    /\ wpc = "frame"
    /\ IF Len(spec.overlap_buf) >= spec.frame_len
       THEN LET frame == SubSeq(spec.overlap_buf, 1, spec.frame_len)
                hop   == Min(spec.hop, Len(spec.overlap_buf))
                sp    == [ spec EXCEPT !.db_floor = db_floor ]
                row   == Row(sp, frame)
            IN  /\ rows' = Append(rows, row)
                /\ produced' = Append(produced, row)
                /\ raw_rows' = Append(raw_rows, RawRow(sp, frame))
                /\ spec' = [ sp EXCEPT !.overlap_buf = Drop(@, hop) ]
                /\ wpc' = "frame"
       ELSE /\ wpc' = "send"
            /\ UNCHANGED << spec, rows, produced, raw_rows >>
    /\ UNCHANGED << cfgVars, viewVars, paceVars, fed, appVars, decodeVars,
                    micVars, phase, blk, chan >>

(* Variant of ProcessFrame: the buffer advances by a whole frame *)
ProcessFrameNoOverlap ==
    /\ wpc = "frame"
    /\ IF Len(spec.overlap_buf) >= spec.frame_len
       THEN LET frame == SubSeq(spec.overlap_buf, 1, spec.frame_len)
                row   == Row(spec, frame)
            IN  /\ rows' = Append(rows, row)
                /\ produced' = Append(produced, row)
                /\ raw_rows' = Append(raw_rows, RawRow(spec, frame))
                /\ spec' = [ spec EXCEPT !.overlap_buf = Drop(@, spec.frame_len) ]
                /\ wpc' = "frame"
       ELSE /\ wpc' = "send"
            /\ UNCHANGED << spec, rows, produced, raw_rows >>
    /\ UNCHANGED << cfgVars, viewVars, paceVars, fed, appVars, decodeVars, micVars, phase, blk, chan >>

(* Variant of ProcessFrame: the samples left over at the end of a call go *)
ProcessFrameDropTail ==
    /\ wpc = "frame"
    /\ IF Len(spec.overlap_buf) >= spec.frame_len
       THEN LET frame == SubSeq(spec.overlap_buf, 1, spec.frame_len)
                hop   == Min(spec.hop, Len(spec.overlap_buf))
                row   == Row(spec, frame)
            IN  /\ rows' = Append(rows, row)
                /\ produced' = Append(produced, row)
                /\ raw_rows' = Append(raw_rows, RawRow(spec, frame))
                /\ spec' = [ spec EXCEPT !.overlap_buf = Drop(@, hop) ]
                /\ wpc' = "frame"
       ELSE /\ wpc' = "send"
            /\ spec' = [ spec EXCEPT !.overlap_buf = << >> ]
            /\ UNCHANGED << rows, produced, raw_rows >>
    /\ UNCHANGED << cfgVars, viewVars, paceVars, fed, appVars, decodeVars, micVars, phase, blk, chan >>

(* process_samples: one turn of while self.overlap_buf.len() >= self.frame_len *)
ProcessFrame ==
    /\ wpc = "frame"
    /\ IF Len(spec.overlap_buf) >= spec.frame_len
       THEN LET frame == SubSeq(spec.overlap_buf, 1, spec.frame_len)
                hop   == Min(spec.hop, Len(spec.overlap_buf))
                row   == Row(spec, frame)
            IN  /\ rows' = Append(rows, row)
                /\ produced' = Append(produced, row)
                /\ raw_rows' = Append(raw_rows, RawRow(spec, frame))
                /\ spec' = [ spec EXCEPT !.overlap_buf = Drop(@, hop) ]
                /\ wpc' = "frame"
       ELSE /\ wpc' = "send"
            /\ UNCHANGED << spec, rows, produced, raw_rows >>
    /\ UNCHANGED << cfgVars, viewVars, paceVars, fed, appVars, decodeVars, micVars, phase, blk, chan >>

(* spectrogram_tx.send(row): waits while the channel is full; fails, and the *)
(* row is dropped, once the receiver is gone.                                *)
ReceiverGone == cpc = "exited"

(* Variants of Send: enqueue at the front; drop the row when full; no capacity *)
SendFront(ch, row, gone) ==
    IF gone THEN [ completes |-> TRUE, chan |-> ch ]
    ELSE IF Len(ch) < ChannelCap
         THEN [ completes |-> TRUE, chan |-> << row >> \o ch ]
         ELSE [ completes |-> FALSE, chan |-> ch ]

SendOrDrop(ch, row, gone) ==
    IF gone THEN [ completes |-> TRUE, chan |-> ch ]
    ELSE IF Len(ch) < ChannelCap
         THEN [ completes |-> TRUE, chan |-> Append(ch, row) ]
         ELSE [ completes |-> TRUE, chan |-> ch ]

SendUnbounded(ch, row, gone) ==
    IF gone THEN [ completes |-> TRUE, chan |-> ch ]
    ELSE [ completes |-> TRUE, chan |-> Append(ch, row) ]

(* send: [completes, chan]; completes = FALSE is the sender waiting *)
Send(ch, row, gone) ==
    IF gone THEN [ completes |-> TRUE, chan |-> ch ]
    ELSE IF Len(ch) < ChannelCap
         THEN [ completes |-> TRUE, chan |-> Append(ch, row) ]
         ELSE [ completes |-> FALSE, chan |-> ch ]

SendRow ==
    /\ wpc = "send"
    /\ rows # << >>
    /\ LET r == Send(chan, Head(rows), ReceiverGone)
       IN  r.completes /\ chan' = r.chan
    /\ rows' = Tail(rows)
    /\ UNCHANGED << cfgVars, viewVars, paceVars, fed, raw_rows, appVars, decodeVars, micVars, wpc, phase, spec,
                    blk, produced >>

(* Time is counted in sample periods of the target rate: emitted_total / sr *)
(* seconds are emitted_total periods, and the cap of 50 ms is sr / 20.       *)
SleepCap(sr) == sr \div 20

(* Variant of ThrottleRealtime: the sleep is not capped *)
ThrottleUncapped(emitted_now, sr, elapsed, emitted_total) ==
    LET total  == emitted_total + emitted_now
    IN  [ emitted_total |-> total,
          target        |-> total,
          slept         |-> IF total > elapsed THEN total - elapsed ELSE 0 ]

(* throttle_realtime: [emitted_total, target, slept] *)
ThrottleRealtime(emitted_now, sr, elapsed, emitted_total) ==
    LET total  == emitted_total + emitted_now
        target == total
    IN  [ emitted_total |-> total,
          target        |-> target,
          slept         |-> IF target > elapsed
                            THEN Min(target - elapsed, SleepCap(sr))
                            ELSE 0 ]

(* The time since throttle_realtime last returned, when it reads the clock *)
Delays == { 0, 2000 }

(* if realtime { throttle_realtime(..) }, in run_wav only *)
Paced == input_kind = "wav" /\ settings.realtime

(* Variant of BlockDone: a throttle that finds itself late leaves the chunk *)
(* in out_buf                                                               *)
BlockDoneResend ==
    /\ wpc = "send"
    /\ rows = << >>
    /\ IF Paced
       THEN \E d \in Delays :
              LET t == ThrottleRealtime(blk, settings.sample_rate, clock + d,
                                        emitted)
              IN  /\ emitted' = t.emitted_total
                  /\ th' = [ target |-> t.target, elapsed |-> clock + d,
                             slept |-> t.slept ]
                  /\ clock' = clock + d + t.slept
                  /\ out_buf' = IF clock + d > t.target THEN out_buf
                                ELSE Drop(out_buf, blk)
                  /\ mic_buf' = mic_buf
       ELSE /\ UNCHANGED paceVars
            /\ IF phase = "mic" /\ MicSameRate
               THEN mic_buf' = Drop(mic_buf, blk) /\ out_buf' = out_buf
               ELSE out_buf' = Drop(out_buf, blk) /\ mic_buf' = mic_buf
    /\ wpc' = "emit"
    /\ UNCHANGED << cfgVars, viewVars, fed, raw_rows, appVars, micVars, rd, sum, cnt, src_buf, src_pos,
                    phase, spec, blk, rows, chan, produced >>

(* on_block returned: the throttle, then the chunk leaves out_buf (or offset *)
(* moves on in buf)                                                          *)
BlockDone ==
    /\ wpc = "send"
    /\ rows = << >>
    /\ IF Paced
       THEN \E d \in Delays :
              LET t == ThrottleRealtime(blk, settings.sample_rate, clock + d,
                                        emitted)
              IN  /\ emitted' = t.emitted_total
                  /\ th' = [ target |-> t.target, elapsed |-> clock + d,
                             slept |-> t.slept ]
                  /\ clock' = clock + d + t.slept
       ELSE UNCHANGED paceVars
    /\ IF phase = "mic" /\ MicSameRate
       THEN mic_buf' = Drop(mic_buf, blk) /\ out_buf' = out_buf
       ELSE out_buf' = Drop(out_buf, blk) /\ mic_buf' = mic_buf
    /\ wpc' = "emit"
    /\ UNCHANGED << cfgVars, viewVars, fed, raw_rows, appVars, micVars, rd, sum, cnt, src_buf, src_pos,
                    phase, spec, blk, rows, chan, produced >>

WorkerCore == WorkerStart \/ Emit \/ ProcessFrame \/ SendRow \/ BlockDone

Worker == WorkerCore \/ WavRead \/ WavEof

-----------------------------------------------------------------------------
(* Live capture: the device callback and run_mic's receive loop *)

(* The worker waits in spectrogram_tx.send *)
WorkerStalled == wpc = "send" /\ rows # << >> /\ Len(chan) = ChannelCap /\ ~ReceiverGone

(* Variants of TrySend: wait when full; displace the oldest buffer when full *)
BlockingSend(q, buf) ==
    IF Len(q) < RawQueueCap
    THEN [ completes |-> TRUE, queue |-> Append(q, buf) ]
    ELSE [ completes |-> FALSE, queue |-> q ]

ForceSend(q, buf) ==
    IF Len(q) < RawQueueCap
    THEN [ completes |-> TRUE, queue |-> Append(q, buf) ]
    ELSE [ completes |-> TRUE, queue |-> Append(Tail(q), buf) ]

(* try_send: returns at once; on a full queue the buffer offered is dropped *)
TrySend(q, buf) ==
    IF Len(q) < RawQueueCap
    THEN [ completes |-> TRUE, queue |-> Append(q, buf) ]
    ELSE [ completes |-> TRUE, queue |-> q ]

(* The callback: downmix (done by MicBuffer), then tx.try_send(mono) *)
MicCapture ==
    /\ input_kind = "mic"
    /\ wpc \notin { "start", "failed" }
    /\ captured < MaxCaptures
    /\ LET r == TrySend(raw, MicBuffer(captured))
       IN  r.completes /\ raw' = r.queue
    /\ last_cb' = [ n |-> captured, full |-> (Len(raw) = RawQueueCap), stalled |-> WorkerStalled ]
    /\ captured' = captured + 1
    /\ UNCHANGED << cfgVars, viewVars, paceVars, fed, raw_rows, appVars, decodeVars, mic_recv, wpc, phase, spec,
                    blk, rows, chan, produced >>

(* while let Ok(buf) = rx.recv() *)
MicRecv ==
    /\ wpc = "recv"
    /\ raw # << >>
    /\ raw' = Tail(raw)
    /\ mic_recv' = Append(mic_recv, Head(raw)[1] \div dev.buf_len)
    /\ IF MicSameRate
       THEN /\ mic_buf' = Head(raw)
            /\ wpc' = "emit"
            /\ UNCHANGED << src_buf, src_pos, out_buf >>
       ELSE LET r == ResampleDrain(RatioNum(settings.sample_rate, dev.sr),
                                   RatioDen(settings.sample_rate, dev.sr),
                                   src_buf \o Head(raw), src_pos, out_buf)
            IN  /\ src_buf' = r.src_buf
                /\ src_pos' = r.src_pos
                /\ out_buf' = r.out_buf
                /\ wpc' = IF r.panic THEN "failed" ELSE "emit"
                /\ UNCHANGED mic_buf
    /\ UNCHANGED << cfgVars, viewVars, paceVars, fed, raw_rows, appVars, rd, sum, cnt, captured, last_cb, phase,
                    spec, blk, rows, chan, produced >>

-----------------------------------------------------------------------------
(* The consumer: ui::run and handle_key *)

(* Palette::next and Palette::prev *)
PaletteKinds ==
    { "Grayscale", "Heat", "Viridis", "Jet", "Inferno", "Magma", "Plasma",
      "PurpleFire" }

PaletteNext(p) ==
    CASE p = "Grayscale"  -> "Heat"
      [] p = "Heat"       -> "Viridis"
      [] p = "Viridis"    -> "Jet"
      [] p = "Jet"        -> "Inferno"
      [] p = "Inferno"    -> "Magma"
      [] p = "Magma"      -> "Plasma"
      [] p = "Plasma"     -> "PurpleFire"
      [] p = "PurpleFire" -> "Grayscale"

PalettePrev(p) ==
    CASE p = "Grayscale"  -> "Plasma"
      [] p = "Heat"       -> "Grayscale"
      [] p = "Viridis"    -> "Heat"
      [] p = "Jet"        -> "Viridis"
      [] p = "Inferno"    -> "Jet"
      [] p = "Magma"      -> "Inferno"
      [] p = "Plasma"     -> "Magma"
      [] p = "PurpleFire" -> "Plasma"

ToggleStyle(st) == IF st = "Horizontal" THEN "Waterfall" ELSE "Horizontal"

AdjustFloor(f, d) == Clamp(f + d, 0 - 140, 0 - 10)

(* format!("{:.6}", v): the text of a value, its digits before and after the *)
(* point; the values of the model are whole numbers                          *)
Field(v) == [ whole |-> v, frac |-> 0 ]

Reverse(q) == [ i \in 1..Len(q) |-> q[Len(q) + 1 - i] ]

(* save_csv: [ok, records].  The writer is csv::Writer's default, which     *)
(* refuses a record whose number of fields differs from the first record's: *)
(* write_record fails, save_csv returns the error, the records before stay. *)
SaveCsv(buf) ==
    LET rs   == Reverse(buf)
        bad  == { i \in 1..Len(rs) : Len(rs[i]) # Len(rs[1]) }
        stop == IF bad = {} THEN Len(rs)
                ELSE (CHOOSE i \in bad : \A j \in bad : i <= j) - 1
    IN  [ ok      |-> (bad = {}),
          records |-> [ i \in 1..stop |->
                          [ b \in 1..Len(rs[i]) |-> Field(rs[i][b]) ] ] ]

(* UiMode *)
NormalMode == [ kind |-> "Normal", input |-> << >> ]

Prompt(kind) == [ kind |-> kind, input |-> << >> ]

InPrompt == mode.kind # "Normal"

NoKey == "None"

(* KeyCode::Esc, Enter, Backspace; every other key is a Char *)
NamedKeys == { "Esc", "Enter", "Backspace" }

(* ensure_saved_dir(sgram_<timestamp>) *)
DefaultPath == << "saved" >>

(* App::save_csv(path) and App::save_png(path, ..): the file cannot be    *)
(* opened when io is FALSE; save_png returns before it for an empty buffer *)
ExportCsv(buf, path, io) ==
    IF io THEN [ ok |-> SaveCsv(buf).ok, records |-> SaveCsv(buf).records,
                 path |-> path ]
    ELSE [ ok |-> FALSE, records |-> << >>, path |-> path ]

ExportPng(buf, path, io) ==
    [ path |-> path, written |-> (buf # << >> /\ io), ok |-> (buf = << >> \/ io) ]

(* The export a key starts, and its path *)
SaveOf(k) ==
    IF InPrompt THEN IF k = "Enter" THEN mode.kind ELSE "None"
    ELSE IF k = "w" THEN "Csv" ELSE IF k = "s" THEN "Png" ELSE "None"

SavePath(k) == IF InPrompt THEN mode.input ELSE DefaultPath

(* What the file system may answer to the export of key k *)
IoOutcomes(k) ==
    IF InPrompt /\ k = "Enter" /\ (mode.kind = "Csv" \/ buffer # << >>)
    THEN IF mode.input = << >> THEN { FALSE } ELSE BOOLEAN
    ELSE { TRUE }

(* handle_key(..)?: a failed export ends ui::run with its error *)
KeyFails(k, io) ==
    \/ SaveOf(k) = "Csv" /\ ~ExportCsv(buffer, SavePath(k), io).ok
    \/ SaveOf(k) = "Png" /\ ~ExportPng(buffer, SavePath(k), io).ok

Exported(k, io) ==
    /\ csv' = IF SaveOf(k) = "Csv"
              THEN Append(csv, ExportCsv(buffer, SavePath(k), io)) ELSE csv
    /\ png' = IF SaveOf(k) = "Png"
              THEN Append(png, ExportPng(buffer, SavePath(k), io)) ELSE png

(* handle_key, mode PromptSave *)
PromptKey(k, io) ==
    /\ mode' = IF k = "Esc" THEN NormalMode
               ELSE IF k = "Enter"
                    THEN IF KeyFails(k, io) THEN mode ELSE NormalMode
               ELSE IF k = "Backspace"
                    THEN [ mode EXCEPT !.input =
                             IF @ = << >> THEN @ ELSE SubSeq(@, 1, Len(@) - 1) ]
               ELSE [ mode EXCEPT !.input = Append(@, k) ]
    /\ Exported(k, io)
    /\ UNCHANGED << running, paused, zoom, style, db_floor, palette >>

(* handle_key, mode Normal *)
NormalKey(k, io) ==
    /\ running' = IF k \in { "q", "Esc" } THEN FALSE ELSE running
    /\ paused' = IF k = "p" THEN ~paused ELSE paused
    /\ zoom' = IF k = "+" THEN AdjustZoom(zoom, 1)
               ELSE IF k = "-" THEN AdjustZoom(zoom, 0 - 1)
               ELSE zoom
    /\ style' = IF k = "a" THEN ToggleStyle(style) ELSE style
    /\ db_floor' = IF k = "[" THEN AdjustFloor(db_floor, 0 - 2)
                   ELSE IF k = "]" THEN AdjustFloor(db_floor, 2)
                   ELSE db_floor
    /\ palette' = IF k = "c" THEN PaletteNext(palette)
                  ELSE IF k = "C" THEN PalettePrev(palette)
                  ELSE palette
    /\ mode' = IF k = "S" THEN Prompt("Png")
               ELSE IF k = "W" THEN Prompt("Csv")
               ELSE mode
    /\ Exported(k, io)

(* Variant of HandleKey: the keys act as in Normal mode whatever the mode *)
HandleKeyModeless(k, io) ==
    /\ key' = k
    /\ IF InPrompt /\ k \in NamedKeys THEN PromptKey(k, io) ELSE NormalKey(k, io)

HandleKey(k, io) ==
    /\ key' = k
    /\ IF InPrompt THEN PromptKey(k, io) ELSE NormalKey(k, io)

(* The keys that change the view are budgeted: at most MaxKeys of them in a *)
(* run, at most MaxExports exports, and at most MaxInput characters typed   *)
Budgeted == { "+", "-", "[", "]", "c", "C", "a" }

PollKey(K) ==
    /\ cpc = "poll"
    /\ \E k \in K : \E io \in IoOutcomes(k) :
          /\ (~InPrompt /\ k \in Budgeted) => keys < MaxKeys
          /\ SaveOf(k) # "None" => Len(csv) + Len(png) < MaxExports
          /\ (InPrompt /\ k \notin NamedKeys) => Len(mode.input) < MaxInput
          /\ HandleKey(k, io)
          /\ keys' = IF ~InPrompt /\ k \in Budgeted THEN keys + 1 ELSE keys
          /\ cpc' = IF KeyFails(k, io) THEN "exited" ELSE "tick"
          /\ chan' = IF KeyFails(k, io) THEN << >> ELSE chan
    /\ UNCHANGED << cfgVars, paceVars, fed, raw_rows, micVars, decodeVars,
                    buffer, max_history, total_rows, drained, pushed, wpc,
                    phase, spec, blk, rows, produced >>

PollTimeout ==
    /\ cpc = "poll"
    /\ cpc' = "tick"
    /\ UNCHANGED << cfgVars, viewVars, paceVars, fed, raw_rows, micVars, decodeVars, running, paused, zoom,
                    buffer, max_history, total_rows, drained, keys, pushed,
                    wpc, phase, spec, blk, rows, chan, produced >>

(* while app.running; when the loop ends main returns and the App, with the *)
(* receiver and the rows still queued, is dropped.                          *)
LoopTop == IF running THEN "poll" ELSE "exited"

Dropped(ch) == IF running THEN ch ELSE << >>

(* Variant of TickDrain: the tick drains whether paused or not *)
TickDrainIgnoresPause ==
    /\ cpc = "tick"
    /\ cpc' = "drain"
    /\ chan' = chan
    /\ drained' = 0
    /\ key' = NoKey
    /\ UNCHANGED << cfgVars, db_floor, palette, style, csv, mode, png, paceVars, fed, raw_rows, micVars, decodeVars, running, paused, zoom, buffer,
                    max_history, total_rows, keys, pushed, wpc, phase, spec,
                    blk, rows, produced >>

(* last_tick.elapsed() >= tick_rate *)
TickDrain ==
    /\ cpc = "tick"
    /\ IF paused
       THEN cpc' = LoopTop /\ chan' = Dropped(chan)
       ELSE cpc' = "drain" /\ chan' = chan
    /\ drained' = 0
    /\ key' = NoKey
    /\ UNCHANGED << cfgVars, db_floor, palette, style, csv, mode, png, paceVars, fed, raw_rows, micVars, decodeVars, running, paused, zoom, buffer,
                    max_history, total_rows, keys, pushed, wpc, phase, spec,
                    blk, rows, produced >>

(* Variant of TryRecv: the loop goes on while rows arrive *)
TryRecvNoLimit ==
    /\ cpc = "drain"
    /\ IF chan # << >>
       THEN LET row  == Head(chan)
                bins == Len(row)
                stop == FALSE
            IN  /\ buffer' = PushRow(buffer, zoom, max_history, row, bins)
                /\ pushed' = Append(pushed, [ row |-> row, zoom |-> zoom ])
                /\ total_rows' = total_rows + 1
                /\ drained' = IF stop THEN 0 ELSE drained + 1
                /\ cpc' = IF stop THEN LoopTop ELSE "drain"
                /\ chan' = IF stop THEN Dropped(Tail(chan)) ELSE Tail(chan)
       ELSE /\ cpc' = LoopTop
            /\ chan' = Dropped(chan)
            /\ drained' = 0
            /\ UNCHANGED << buffer, pushed, total_rows >>
    /\ UNCHANGED << cfgVars, viewVars, paceVars, fed, raw_rows, micVars, decodeVars, running, paused, zoom,
                    max_history, keys, wpc, phase, spec, blk, rows, produced >>

(* one turn of while let Ok(row) = app.spectrogram_rx.try_recv() *)
TryRecv ==
    /\ cpc = "drain"
    /\ IF chan # << >>
       THEN LET row  == Head(chan)
                bins == Len(row)
                stop == drained + 1 > DrainLimit
            IN  /\ buffer' = PushRow(buffer, zoom, max_history, row, bins)
                /\ pushed' = Append(pushed, [ row |-> row, zoom |-> zoom ])
                /\ total_rows' = total_rows + 1
                /\ drained' = IF stop THEN 0 ELSE drained + 1
                /\ cpc' = IF stop THEN LoopTop ELSE "drain"
                /\ chan' = IF stop THEN Dropped(Tail(chan)) ELSE Tail(chan)
       ELSE /\ cpc' = LoopTop
            /\ chan' = Dropped(chan)
            /\ drained' = 0
            /\ UNCHANGED << buffer, pushed, total_rows >>
    /\ UNCHANGED << cfgVars, viewVars, paceVars, fed, raw_rows, micVars, decodeVars, running, paused, zoom,
                    max_history, keys, wpc, phase, spec, blk, rows, produced >>

(* the tick is not due yet *)
TickSkip ==
    /\ cpc = "tick"
    /\ cpc' = LoopTop
    /\ chan' = Dropped(chan)
    /\ key' = NoKey
    /\ UNCHANGED << cfgVars, db_floor, palette, style, csv, mode, png, paceVars, fed, raw_rows, micVars, decodeVars, running, paused, zoom,
                    buffer, max_history, total_rows, drained, keys, pushed, wpc,
                    phase, spec, blk, rows, produced >>

MainKeys == { "q", "p" }

Ticks == PollTimeout \/ TickDrain \/ TryRecv \/ TickSkip

Consumer == PollKey(MainKeys) \/ Ticks

Next == Worker \/ Consumer

Spec == Init /\ [][Next]_vars

-----------------------------------------------------------------------------
(* The file pipeline with the fairness of its scheduling: the worker thread *)
(* runs, the consumer loop iterates and its tick comes due again and again. *)

LiveScenarios == { Scenario(DefaultCli, DefaultWav) }

InitLive == \E sc \in LiveScenarios : InitOf(sc)

LiveKeys == { "p" }

NextLive == Worker \/ PollKey(LiveKeys) \/ Ticks

SpecLive ==
    /\ InitLive
    /\ [][NextLive]_vars
    /\ WF_vars(Worker)
    /\ WF_vars(PollTimeout)
    /\ WF_vars(TryRecv)
    /\ SF_vars(TickDrain)

-----------------------------------------------------------------------------
(* The history buffer under zoom changes: short files, a little more than *)
(* max_history rows.                                                       *)

HistScenarios ==
    { Scenario(DefaultCli, [ DefaultWav EXCEPT !.frames = 34 ]),
      Scenario([ DefaultCli EXCEPT !.fft = 24, !.zoom4 = 32, !.history = 17 ],
               [ DefaultWav EXCEPT !.frames = 43 ]),
      Scenario([ DefaultCli EXCEPT !.zoom4 = 1000 ],
               [ DefaultWav EXCEPT !.frames = 34 ]) }

InitHist == \E sc \in HistScenarios : InitOf(sc)

HistKeys == { "+", "-", "p" }

NextHist == Worker \/ PollKey(HistKeys) \/ Ticks

SpecHist == InitHist /\ [][NextHist]_vars

-----------------------------------------------------------------------------
(* Every requested fft size, window length and hop, on a short file *)

CliFft == { 0, 8, 16, 24, 32 }

CliWin == { NoWin, 0, 8, 16, 20, 40 }

CliHop == { 0, 1, 8, 16, 20, 40 }

CfgScenarios ==
    { Scenario([ DefaultCli EXCEPT !.fft = f, !.win = w, !.hop = h ],
               [ DefaultWav EXCEPT !.frames = 36 ]) :
        f \in CliFft, w \in CliWin, h \in CliHop }

InitCfg == \E sc \in CfgScenarios : InitOf(sc)

NextCfg == Worker \/ Ticks

SpecCfg == InitCfg /\ [][NextCfg]_vars

-----------------------------------------------------------------------------
(* Live capture: the callback and the worker.  The consumer is left out: it *)
(* touches neither the callback nor the raw-audio queue, and with the rows  *)
(* left in the row channel the worker comes to wait in send.                *)

MicScenarios ==
    { MicScenario(DefaultCli, DefaultDev),
      MicScenario([ DefaultCli EXCEPT !.fft = 256, !.hop = 256 ],
                  [ DefaultDev EXCEPT !.buf_len = 16 ]),
      MicScenario([ DefaultCli EXCEPT !.fft = 256, !.hop = 256 ],
                  [ DefaultDev EXCEPT !.buf_len = 16, !.sr = 24000 ]),
      MicScenario(DefaultCli, [ DefaultDev EXCEPT !.ok = FALSE ]) }

InitMic == \E sc \in MicScenarios : InitOf(sc)

NextMic == WorkerCore \/ MicCapture \/ MicRecv

SpecMic == InitMic /\ [][NextMic]_vars

-----------------------------------------------------------------------------
(* The resampler alone.  As its tests call it: one resample_drain on a ramp *)
(* of n samples, from position 0 and with an empty output.  As run_wav     *)
(* calls it: after each sample pushed to the source buffer, the position   *)
(* and the buffer being those the call before left.  The ratios are those  *)
(* below and 0 (a target rate of 0).                                       *)

MaxSrc == 12

(* dst_sr / src_sr = 1/4, 1/2, 3/4, 1, 5/4, 3/2, 2, 3, 4, 5 *)
ResampleRates ==
    { 192000, 96000, 64000, 48000, 38400, 32000, 24000, 16000, 12000, 9600 }

ResampleScenarios ==
    { Scenario(DefaultCli, [ DefaultWav EXCEPT !.src_sr = sr ]) :
        sr \in ResampleRates }
    \cup { Scenario([ DefaultCli EXCEPT !.sample_rate = 0 ], DefaultWav) }

InitResample == \E sc \in ResampleScenarios : InitOf(sc)

ResampleTest ==
    /\ wpc = "start"
    /\ \E n \in 2 .. MaxSrc :
         LET src == [ i \in 1..n |-> WavSample(i - 1) ]
             r   == ResampleDrain(RatioNum(settings.sample_rate, wav.src_sr),
                                  RatioDen(settings.sample_rate, wav.src_sr),
                                  src, 0, << >>)
         IN  /\ rd' = n
             /\ src_buf' = r.src_buf
             /\ src_pos' = r.src_pos
             /\ out_buf' = r.out_buf
             /\ wpc' = IF r.panic THEN "failed" ELSE "done"
    /\ UNCHANGED << cfgVars, viewVars, paceVars, fed, raw_rows, appVars, micVars, sum, cnt, mic_buf, phase, spec,
                    blk, rows, chan, produced >>

(* src_buf.push(..); resample_drain(ratio, &mut src_buf, &mut src_pos, ..) *)
ResamplePush ==
    /\ wpc \in { "start", "read" }
    /\ rd < MaxSrc
    /\ LET r == ResampleDrain(RatioNum(settings.sample_rate, wav.src_sr),
                              RatioDen(settings.sample_rate, wav.src_sr),
                              Append(src_buf, WavSample(rd)), src_pos, out_buf)
       IN  /\ src_buf' = r.src_buf
           /\ src_pos' = r.src_pos
           /\ out_buf' = r.out_buf
           /\ wpc' = IF r.panic THEN "failed" ELSE "read"
    /\ rd' = rd + 1
    /\ UNCHANGED << cfgVars, viewVars, paceVars, fed, raw_rows, appVars, micVars, sum, cnt, mic_buf, phase, spec,
                    blk, rows, chan, produced >>

NextResample == ResampleTest \/ ResamplePush

SpecResample == InitResample /\ [][NextResample]_vars

-----------------------------------------------------------------------------
(* Pacing: the same files and configurations with realtime on and off, at a *)
(* rate whose block lasts less than the cap of a sleep (48000) and at one   *)
(* whose block lasts longer (8000), and a live capture with realtime on.    *)

PaceCli == [ DefaultCli EXCEPT !.fft = 256, !.hop = 256 ]

PaceScenarios ==
    { Scenario([ PaceCli EXCEPT !.realtime = rt, !.sample_rate = sr ],
               [ DefaultWav EXCEPT !.frames = 2100, !.src_sr = sr ]) :
        rt \in BOOLEAN, sr \in { 48000, 8000 } }
    \cup { MicScenario([ PaceCli EXCEPT !.realtime = TRUE ],
                       [ DefaultDev EXCEPT !.buf_len = 16 ]) }

InitPace == \E sc \in PaceScenarios : InitOf(sc)

NextPace == Worker \/ MicCapture \/ MicRecv \/ Ticks

SpecPace == InitPace /\ [][NextPace]_vars

-----------------------------------------------------------------------------
(* The keys of the view and the export, on a file of a few rows: every      *)
(* initial palette, and a transform with and without normalize and clamp.   *)

KeysCli == [ DefaultCli EXCEPT !.hop = 16 ]

KeysScenarios ==
    { Scenario([ KeysCli EXCEPT !.palette = p ],
               [ DefaultWav EXCEPT !.frames = 50 ]) : p \in PaletteKinds }
    \cup { Scenario([ KeysCli EXCEPT !.floor = 0 - 40, !.clamp_floor = TRUE,
                                     !.normalize = TRUE ],
                    [ DefaultWav EXCEPT !.frames = 50 ]) }

InitKeys == \E sc \in KeysScenarios : InitOf(sc)

ViewKeys == { "q", "p", "a", "+", "-", "[", "]", "c", "C", "w" }

NextKeys == Worker \/ PollKey(ViewKeys) \/ Ticks

SpecKeys == InitKeys /\ [][NextKeys]_vars

-----------------------------------------------------------------------------
(* The display parameters: a file of two rows, started with a zoom below,  *)
(* at, inside and above the limits of adjust_zoom and with a floor below,  *)
(* at, inside and above the limits of adjust_floor, and the four keys.     *)

ViewScenarios ==
    { Scenario([ KeysCli EXCEPT !.zoom4 = z, !.floor = f ],
               [ DefaultWav EXCEPT !.frames = 34 ]) :
        z \in { 0, 4, 5, 255, 256, 1000 },
        f \in { 0 - 200, 0 - 141, 0 - 140, 0 - 80, 0 - 10, 0 - 9, 0 } }

InitView == \E sc \in ViewScenarios : InitOf(sc)

ZoomFloorKeys == { "+", "-", "[", "]" }

NextView == Worker \/ PollKey(ZoomFloorKeys) \/ Ticks

SpecView == InitView /\ [][NextView]_vars

-----------------------------------------------------------------------------
(* The modes of the key handler: a short file that gives one row, the keys *)
(* that open and answer the save prompt, and the keys of Normal mode that  *)
(* act on the fields of the App, which in the prompt are characters of the *)
(* path.                                                                   *)

ModeScenarios ==
    { Scenario(KeysCli, [ DefaultWav EXCEPT !.frames = 5, !.src_sr = 12000 ]) }

InitModes == \E sc \in ModeScenarios : InitOf(sc)

ModeKeys == { "S", "W", "Esc", "Enter", "Backspace", "q", "p", "+", "[", "c", "a" }

(* The keys are pressed once the worker has finished with the file, and *)
(* after the first export only the key that quits                       *)
LateKey(K) ==
    /\ wpc = "done"
    /\ PollKey(IF csv = << >> /\ png = << >> THEN K ELSE { "q" })

NextModes == Worker \/ LateKey(ModeKeys) \/ Ticks

SpecModes == InitModes /\ [][NextModes]_vars

-----------------------------------------------------------------------------
(* The end of process_samples alone: the transform is built with and        *)
(* without normalize and clamp, for two floors, and processes frames whose  *)
(* bins in dB are drawn from rows of two levels: silence (all-zero input),  *)
(* levels around the floors, 0 dB and above.                                *)

DspScenarios ==
    { Scenario([ DefaultCli EXCEPT !.floor = f, !.clamp_floor = c,
                                   !.normalize = n ], DefaultWav) :
        f \in { 0 - 80, 0 - 40 }, c \in BOOLEAN, n \in BOOLEAN }

InitDsp == \E sc \in DspScenarios : InitOf(sc)

DbValues == { SilenceDb, 0 - 100, 0 - 41, 0 - 40, 0 - 39, 0, 12 }

DbRows ==
    { [ i \in 1..NBins(spec) |-> IF i <= k THEN a ELSE b ] :
        a \in DbValues, b \in DbValues, k \in { 1, 4 } }

ProcessDb ==
    /\ wpc = "read"
    /\ Len(produced) < MaxDbRows
    /\ \E r \in DbRows :
          /\ raw_rows' = Append(raw_rows, r)
          /\ produced' = Append(produced, PostProcess(spec, r))
    /\ UNCHANGED << cfgVars, viewVars, paceVars, fed, appVars, decodeVars,
                    micVars, wpc, phase, spec, blk, rows, chan >>

NextDsp == WorkerStart \/ ProcessDb

SpecDsp == InitDsp /\ [][NextDsp]_vars

-----------------------------------------------------------------------------
(* process_samples alone: a stream of MaxStream samples is handed to it in  *)
(* consecutive chunks of any lengths, empty ones included: 16-sample frames *)
(* that fill the FFT or are zero-padded to 32, hops of 1, 5 and 16, with    *)
(* and without pre-emphasis.  rd counts the samples handed over.            *)

MaxStream == 24

StreamSample(i) == ((i * i + 3 * i) % 11) - 5

Stream(from, n) == [ i \in 1..n |-> StreamSample(from + i - 1) ]

ChunkScenarios ==
    { Scenario([ DefaultCli EXCEPT !.fft = f, !.win = 16, !.hop = h,
                                   !.pre_emphasis = b ], DefaultWav) :
        f \in { 16, 32 }, h \in { 1, 5, 16 },
        b \in { NoPreEmph, PreEmph(1), PreEmph(2) } }

InitChunk == \E sc \in ChunkScenarios : InitOf(sc)

(* process_samples as one call: the frame loop, then the whole function *)
RECURSIVE FrameLoop(_, _)
FrameLoop(sp, out) ==
    IF Len(sp.overlap_buf) >= sp.frame_len
    THEN FrameLoop([ sp EXCEPT !.overlap_buf =
                                 Drop(@, Min(sp.hop, Len(sp.overlap_buf))) ],
                   Append(out, Row(sp, SubSeq(sp.overlap_buf, 1, sp.frame_len))))
    ELSE [ spec |-> sp, rows |-> out ]

ProcessSamples(sp, samples) == FrameLoop(Ingest(sp, samples), << >>)

(* process_samples(samples): the samples are ingested *)
FeedSamples ==
    /\ wpc = "read"
    /\ \E n \in 0 .. (MaxStream - rd) :
          /\ spec' = Ingest(spec, Stream(rd, n))
          /\ rd' = rd + n
          /\ blk' = n
    /\ wpc' = "frame"
    /\ UNCHANGED << cfgVars, viewVars, paceVars, fed, raw_rows, appVars, micVars,
                    sum, cnt, src_buf, src_pos, out_buf, mic_buf, phase,
                    rows, chan, produced >>

(* process_samples returns out *)
ReturnRows ==
    /\ wpc = "send"
    /\ rows' = << >>
    /\ blk' = 0
    /\ wpc' = "read"
    /\ UNCHANGED << cfgVars, viewVars, paceVars, fed, raw_rows, appVars, decodeVars,
                    micVars, phase, spec, chan, produced >>

NextChunk == WorkerStart \/ FeedSamples \/ ProcessFrame \/ ReturnRows

SpecChunk == InitChunk /\ [][NextChunk]_vars

-----------------------------------------------------------------------------
(* The rows the consumer received, in order *)
Received == [ i \in 1..Len(pushed) |-> pushed[i].row ]

(* The entry of pushed for the row now at index i (from 1) of the buffer *)
PushOf(i) == pushed[Len(pushed) + 1 - i]

-----------------------------------------------------------------------------
(* C1: the history buffer never holds more than max_history rows, and it  *)
(* is the most recent min(n, max_history) of the n rows pushed, each a    *)
(* prefix of the row as received, the newest at index 0: rows leave only  *)
(* from the back.                                                         *)
C1_HistoryBuffer ==
    /\ Len(buffer) <= max_history
    /\ Len(buffer) = Min(Len(pushed), max_history)
    /\ \A i \in 1..Len(buffer) :
          /\ Len(buffer[i]) <= Len(PushOf(i).row)
          /\ buffer[i] = SubSeq(PushOf(i).row, 1, Len(buffer[i]))

C1_Witness ==
    /\ Len(pushed) > max_history
    /\ Len(buffer) = max_history
    /\ max_history > MinHistory

(* C2: the rows the consumer has received are a prefix of the rows        *)
(* process_samples produced, in the order it produced them.               *)
C2_ChannelFifo == IsPrefix(Received, produced)

C2_Witness ==
    /\ Len(pushed) > ChannelCap
    /\ chan # << >>
    /\ Len(produced) > Len(pushed) + Len(chan)

(* C3: in file mode no row is lost or duplicated: while the receiver      *)
(* lives, the rows produced are exactly the rows received, then the rows  *)
(* in the channel, then the rows the worker still holds; and if the user  *)
(* neither quits nor stays paused, the worker reaches end of file and     *)
(* every row produced is pushed.                                          *)
C3_LosslessFile ==
    /\ [](~ReceiverGone => produced = Received \o chan \o rows)
    /\ (<>[](running /\ ~paused)) => <>(wpc = "done" /\ Received = produced)

C3_Witness ==
    /\ wpc = "done"
    /\ Received = produced
    /\ Len(produced) > ChannelCap

(* The capture stream is playing and the device still delivers buffers *)
Capturing ==
    /\ input_kind = "mic"
    /\ wpc \notin { "start", "failed" }
    /\ captured < MaxCaptures

(* C4: while the stream plays, the capture callback can always run to its *)
(* end, whatever the raw-audio queue, the row channel and the worker are  *)
(* doing: it never waits.                                                 *)
C4_CallbackNeverBlocks == Capturing => ENABLED MicCapture

C4_Witness ==
    /\ last_cb.full
    /\ last_cb.stalled
    /\ captured = last_cb.n + 1
    /\ Len(raw) = RawQueueCap

(* The callback numbers of the buffers received, then of those queued *)
Delivered == mic_recv \o [ i \in 1..Len(raw) |-> raw[i][1] \div dev.buf_len ]

InCaptureOrder ==
    /\ \A i \in 1..Len(Delivered) : Delivered[i] < captured
    /\ \A i \in 1..(Len(Delivered) - 1) : Delivered[i] < Delivered[i + 1]

(* C5, as the specification states it: a buffer offered while the queue *)
(* is full displaces the oldest buffer not yet consumed, and the worker *)
(* receives buffers in capture order.                                   *)
C5_OldestLost ==
    /\ []InCaptureOrder
    /\ [][(captured' = captured + 1 /\ Len(raw) = RawQueueCap)
            => raw' = Append(Tail(raw), MicBuffer(captured))]_vars

(* C5, as the code behaves: a buffer offered while the queue is full is  *)
(* itself discarded and the queue keeps the buffers it held; any other   *)
(* buffer is appended; the worker receives buffers in capture order.     *)
C5_OfferedLost ==
    /\ []InCaptureOrder
    /\ [][captured' = captured + 1
            => raw' = IF Len(raw) = RawQueueCap THEN raw
                      ELSE Append(raw, MicBuffer(captured))]_vars

C5_Witness ==
    /\ Len(mic_recv) > 1
    /\ \E i \in 1..(Len(mic_recv) - 1) : mic_recv[i + 1] > mic_recv[i] + 1

(* C6: a row is stored as its max(1, round(N / Z)) lowest-index bins, N   *)
(* its length and Z the zoom when it was pushed, and stays so whatever    *)
(* the zoom becomes later.  With Z = z4 / 4, t = round(N / Z) is the t    *)
(* with (2t - 1) * z4 <= 8N < (2t + 1) * z4.                              *)
C6_ZoomAtPush ==
    \A i \in 1..Min(Len(buffer), Len(pushed)) :
       LET n  == Len(PushOf(i).row)
           z4 == PushOf(i).zoom
           t  == Len(buffer[i])
       IN  /\ t >= 1
           /\ buffer[i] = SubSeq(PushOf(i).row, 1, t)
           /\ \/ (2 * t - 1) * z4 <= 8 * n /\ 8 * n < (2 * t + 1) * z4
              \/ t = 1 /\ 8 * n < z4

C6_Witness ==
    \E i \in 1..Min(Len(buffer), Len(pushed)) :
       /\ PushOf(i).zoom # zoom
       /\ Len(buffer[i]) # Max(ZoomTake(Len(PushOf(i).row), zoom), 1)
       /\ 8 * Len(PushOf(i).row) = (2 * Len(buffer[i]) - 1) * PushOf(i).zoom

(* A step of the worker that completes a send, and steps of the consumer *)
(* that take rows out of the channel or drop it                          *)
SendStep == wpc = "send" /\ rows # << >> /\ rows' = Tail(rows)

RecvStep == cpc = "drain" /\ chan # << >> /\ chan' = Tail(chan)

(* C7: the row channel never holds more than 64 rows; rows enter it only  *)
(* by the worker's send, at the back, and leave it only by the consumer;  *)
(* while it holds 64 rows the worker's send does not complete.            *)
C7_BoundedChannel ==
    /\ [](Len(chan) <= ChannelCap)
    /\ [][/\ chan' # chan =>
               \/ SendStep /\ chan' = Append(chan, Head(rows))
               \/ RecvStep
               \/ ~running /\ cpc' = "exited" /\ chan' = << >>
          /\ Len(chan) = ChannelCap => ~SendStep]_vars

C7_Witness ==
    /\ WorkerStalled
    /\ Len(rows) > 1
    /\ Len(pushed) > 0

(* The values the transform is constructed with *)
Transform == [ fft_size  |-> settings.fft_size,
               frame_len |-> AppFrameLen(settings),
               hop       |-> AppHop(settings) ]

Ordered(t) == 1 <= t.hop /\ t.hop <= t.frame_len /\ t.frame_len <= t.fft_size

(* C8: whatever fft size, window length and hop are requested, the values *)
(* the transform is constructed with, and the values it uses, satisfy     *)
(* 1 <= hop <= frame_len <= fft_size.                                     *)
C8_TransformSizes ==
    /\ Ordered(Transform)
    /\ wpc # "start" => Ordered(spec)

C8_Witness ==
    /\ cli.fft < MinFft
    /\ cli.win > MinFft
    /\ cli.hop > MinFft
    /\ settings.hop_size # cli.hop
    /\ produced # << >>

(* C9: every row process_samples returns has fft_size / 2 values *)
C9_RowLength ==
    /\ \A i \in 1..Len(produced) : Len(produced[i]) = settings.fft_size \div 2
    /\ \A i \in 1..Len(rows) : Len(rows[i]) = spec.fft_size \div 2

C9_Witness ==
    /\ Len(produced) > 1
    /\ spec.frame_len < spec.fft_size
    /\ spec.fft_size > MinFft

(* C10: a worker that fails to open or decode its input produces nothing  *)
(* more and does not try again; the rows it sent stay receivable, in      *)
(* order; the failure changes neither the channel nor the history buffer  *)
(* nor running, which only the quit key makes false.                      *)
C10_WorkerFailure ==
    /\ [](/\ wav.bad_at # NoBad => rd <= wav.bad_at
          /\ (input_kind = "wav" /\ ~wav.open_ok) => rd = 0 /\ produced = << >>
          /\ (input_kind = "mic" /\ ~dev.ok) => captured = 0 /\ produced = << >>
          /\ (wpc = "failed" /\ ~ReceiverGone) => produced = Received \o chan
          /\ running => ~ReceiverGone)
    /\ [][/\ wpc = "failed" => (wpc' = "failed" /\ produced' = produced /\ rd' = rd)
          /\ (wpc' = "failed" /\ wpc # "failed")
                => UNCHANGED << chan, buffer, running, paused, cpc >>
          /\ (wpc = "failed" /\ buffer' # buffer)
                => (RecvStep /\ Len(buffer') >= Len(buffer))
          /\ (running /\ ~running') => PollKey({ "q" })]_vars

C10_Witness ==
    /\ wpc = "failed"
    /\ wav.bad_at # NoBad
    /\ running
    /\ cpc = "poll"
    /\ chan = << >>
    /\ produced # << >>
    /\ Received = produced

(* A send that fails: the receiver is gone, the row is dropped *)
FailedSend == wpc = "send" /\ rows # << >> /\ ReceiverGone /\ rows' = Tail(rows)

(* C11: once the receiver is closed, the send that fails ends the worker: *)
(* after it the worker neither sends nor reads nor transforms any more.   *)
C11_FailedSendEndsWorker == [][FailedSend => wpc' \in { "done", "failed" }]_vars

(* C15: the configuration the consumer shows (settings.hop_size,         *)
(* settings.window_len, settings.fft_size) is the hop, the frame length   *)
(* and the fft size of the worker's transform.                            *)
C15_ShownIsUsed ==
    wpc # "start" =>
       /\ settings.fft_size = spec.fft_size
       /\ settings.window_len = spec.frame_len
       /\ settings.hop_size = spec.hop

(* The number of k >= 0 with k / ratio < n - 1, for ratio = num / den *)
IdealCount(num, den, n) ==
    Cardinality({ k \in 0 .. (n * num) : k * den < (n - 1) * num })

Resampled == wpc = "done" /\ rd >= 2

Emitted == Len(out_buf)

Ideal == IdealCount(RatioNum(settings.sample_rate, wav.src_sr),
                    RatioDen(settings.sample_rate, wav.src_sr), rd)

RefSample(i) == Interp(WavSample(i - 1), WavSample(i), 0)

RefLen == wav.frames - 1

RefChunkCount == (RefLen + Block - 1) \div Block

RefChunk(k) ==
    [ i \in 1..(Min(k * Block, RefLen) - (k - 1) * Block) |->
        RefSample((k - 1) * Block + i) ]

RefSpec == Build(settings.fft_size, AppFrameLen(settings), AppHop(settings))

RefRowCount ==
    IF RefLen < RefSpec.frame_len THEN 0
    ELSE (RefLen - RefSpec.frame_len) \div RefSpec.hop + 1

RefRow(j) ==
    Row(RefSpec, [ i \in 1..RefSpec.frame_len |->
                     RefSample((j - 1) * RefSpec.hop + i) ])

(* C12: for a file and a configuration, the chunks handed to the transform  *)
(* and the rows delivered to the consumer are the same sequences with       *)
(* realtime pacing on and off: chunk by chunk and row by row they are those *)
(* of the file alone, and no row is reordered, merged or dropped on its way *)
(* to the consumer.                                                         *)
C12_PacingKeepsData ==
    [][input_kind = "wav" =>
          /\ fed' # fed =>
                /\ Len(fed) < RefChunkCount
                /\ fed' = Append(fed, RefChunk(Len(fed) + 1))
          /\ produced' # produced =>
                /\ Len(produced) < RefRowCount
                /\ produced' = Append(produced, RefRow(Len(produced) + 1))
          /\ Len(produced') = Len(Received') + Len(chan') + Len(rows')
          /\ (chan' # chan \/ rows' # rows \/ pushed' # pushed) =>
                produced' = Received' \o chan' \o rows'
          /\ wpc' = "done" =>
                Len(fed') = RefChunkCount /\ Len(produced') = RefRowCount]_vars

C12_Witness ==
    /\ Paced
    /\ wpc = "done"
    /\ th.slept > 0
    /\ Len(fed) = 3
    /\ Len(Received) = RefRowCount
    /\ Received[RefRowCount] = RefRow(RefRowCount)
    /\ RefRowCount = 8

RECURSIVE SumLen(_)
SumLen(chunks) ==
    IF chunks = << >> THEN 0 ELSE Len(Head(chunks)) + SumLen(Tail(chunks))

(* A call of throttle_realtime *)
Throttled == emitted' # emitted

(* C13: after each chunk of a paced file the deadline is the number of      *)
(* samples emitted so far over the target rate, counted from the start; the *)
(* worker sleeps only when the deadline is later than the elapsed time, for *)
(* min(deadline - elapsed, 50 ms); with realtime off, and for a live        *)
(* capture, it never sleeps.                                                *)
C13_Pacing ==
    [][/\ Throttled =>
             /\ Paced
             /\ th'.target = SumLen(fed)
             /\ th'.elapsed >= clock
             /\ th'.slept = IF th'.target > th'.elapsed
                            THEN Min(th'.target - th'.elapsed,
                                     SleepCap(settings.sample_rate))
                            ELSE 0
             /\ 20 * th'.slept <= settings.sample_rate
             /\ clock' = th'.elapsed + th'.slept
       /\ ~Throttled => clock' = clock /\ th' = th
       /\ (Paced /\ wpc = "send" /\ wpc' = "emit") => Throttled]_vars

C13_Witness ==
    /\ Paced
    /\ settings.sample_rate = 8000
    /\ th.target > th.elapsed + th.slept
    /\ 20 * th.slept = settings.sample_rate
    /\ Len(fed) = 2

(* The configuration of the worker's transform *)
Config(sp) ==
    [ fft_size |-> sp.fft_size, frame_len |-> sp.frame_len, hop |-> sp.hop,
      db_floor |-> sp.db_floor, clamp_floor |-> sp.clamp_floor,
      normalize |-> sp.normalize ]

workerVars == << wpc, phase, spec, decodeVars, blk, rows, produced, raw_rows,
                 fed, paceVars >>

(* C14: the worker's transform takes its configuration from the settings    *)
(* when it starts and keeps it: no step changes it afterwards; a step of    *)
(* the consumer (a key, an export, a tick) changes nothing of the worker,   *)
(* and a step of the worker changes nothing of the consumer; the row        *)
(* channel is all they share.                                               *)
C14_ConfigCaptured ==
    [][/\ wpc = "start" /\ wpc' # "start" =>
             Config(spec') =
                [ fft_size |-> settings.fft_size,
                  frame_len |-> AppFrameLen(settings),
                  hop |-> AppHop(settings),
                  db_floor |-> settings.db_floor,
                  clamp_floor |-> settings.clamp_floor,
                  normalize |-> settings.normalize ]
       /\ wpc # "start" => Config(spec') = Config(spec)
       /\ << appVars, viewVars >>' # << appVars, viewVars >> =>
             UNCHANGED << workerVars, cfgVars >>
       /\ workerVars' # workerVars =>
             UNCHANGED << appVars, viewVars, cfgVars >>]_vars

C14_Witness ==
    /\ wpc = "done"
    /\ db_floor = spec.db_floor - 2
    /\ spec.db_floor = settings.db_floor
    /\ keys = 1
    /\ Len(produced) = 3
    /\ Len(buffer) = 3

(* C16: an export writes one record per row of the history, the oldest row  *)
(* first, each record the values of its row in bin order, and leaves the    *)
(* history as it is.                                                        *)
C16_CsvExport ==
    [][csv' # csv =>
          LET file == csv'[Len(csv')]
          IN  /\ file.ok
              /\ Len(file.records) = Len(buffer)
              /\ \A i \in 1..Len(file.records) :
                    file.records[i] =
                       [ b \in 1..Len(buffer[Len(buffer) + 1 - i]) |->
                           Field(buffer[Len(buffer) + 1 - i][b]) ]
              /\ buffer' = buffer]_vars

RECURSIVE NextTimes(_, _)
NextTimes(p, n) == IF n = 0 THEN p ELSE NextTimes(PaletteNext(p), n - 1)

RECURSIVE PrevTimes(_, _)
PrevTimes(p, n) == IF n = 0 THEN p ELSE PrevTimes(PalettePrev(p), n - 1)

(* C20: from any palette, next() repeated comes back to it within 8 steps,  *)
(* and so does prev() repeated.                                             *)
C20_PaletteCycles ==
    /\ \E n \in 1..8 : NextTimes(palette, n) = palette
    /\ \E n \in 1..8 : PrevTimes(palette, n) = palette

(* C18: with clamp-floor on, every value of every row process_samples       *)
(* returns is at least db_floor, for silence as for any other input, with   *)
(* and without normalize; a value is raised to the floor only when, after   *)
(* the normalization, it is below it.                                       *)
C18_ClampFloor ==
    spec.clamp_floor =>
       \A k \in 1..Len(produced) : \A i \in 1..Len(produced[k]) :
          LET v == IF spec.normalize
                   THEN raw_rows[k][i] - RowMax(raw_rows[k])
                   ELSE raw_rows[k][i]
          IN  /\ produced[k][i] >= spec.db_floor
              /\ produced[k][i] = IF v < spec.db_floor THEN spec.db_floor ELSE v

C18_Witness ==
    /\ spec.clamp_floor
    /\ spec.normalize
    /\ spec.db_floor = 0 - 40
    /\ Len(produced) = 1
    /\ raw_rows[1][1] = 12
    /\ raw_rows[1][2] = 0 - 39
    /\ produced[1][1] = 0
    /\ produced[1][2] = 0 - 40

(* C19: with normalize on and clamp-floor off, every row process_samples    *)
(* returns is its row of dB values with the maximum of that row subtracted  *)
(* from every value: its maximum is 0 and no value is above 0.              *)
C19_Normalize ==
    (spec.normalize /\ ~spec.clamp_floor) =>
       \A k \in 1..Len(produced) :
          /\ Len(produced[k]) = Len(raw_rows[k])
          /\ \E i \in 1..Len(produced[k]) : produced[k][i] = 0
          /\ \A i \in 1..Len(produced[k]) : produced[k][i] <= 0
          /\ \A i, j \in 1..Len(produced[k]) :
                produced[k][i] - produced[k][j] = raw_rows[k][i] - raw_rows[k][j]

C19_Witness ==
    /\ spec.normalize
    /\ ~spec.clamp_floor
    /\ Len(produced) = 1
    /\ raw_rows[1][1] = 0 - 100
    /\ raw_rows[1][2] = 12
    /\ produced[1][1] = 0 - 112
    /\ produced[1][2] = 0

-----------------------------------------------------------------------------
(* The transform as the worker builds it, before any sample *)
BuiltSpec ==
    [ Build(settings.fft_size, AppFrameLen(settings), AppHop(settings))
        EXCEPT !.db_floor = settings.db_floor,
               !.clamp_floor = settings.clamp_floor,
               !.normalize = settings.normalize,
               !.pre_emph = settings.pre_emphasis ]

(* Sample n (from 0) of the cumulative stream as it enters the overlap buffer *)
Ingested(n) ==
    IF settings.pre_emphasis.some
    THEN StreamSample(n) - settings.pre_emphasis.beta *
                           (IF n = 0 THEN 0 ELSE StreamSample(n - 1))
    ELSE StreamSample(n)

FrameCount(n) ==
    IF n < BuiltSpec.frame_len THEN 0
    ELSE (n - BuiltSpec.frame_len) \div BuiltSpec.hop + 1

CallDone == wpc \in { "read", "send" }

(* C21: over the cumulative stream handed to process_samples, row k (from  *)
(* 0) is computed from the samples [k*hop, k*hop + frame_len) zero-padded  *)
(* to fft_size; once a call is over, after N cumulative samples there are  *)
(* 0 rows if N < frame_len and floor((N - frame_len)/hop) + 1 otherwise    *)
(* and fewer than frame_len samples are left in the overlap buffer; a call *)
(* never takes more turns than that count allows, so it terminates, and a  *)
(* trailing partial frame gives no row.                                    *)
C21_OverlapHopFraming ==
    wpc # "start" =>
        /\ spec.hop >= 1
        /\ Len(produced) <= FrameCount(rd)
        /\ \A k \in 1..Len(produced) :
              produced[k] = Row(BuiltSpec, [ i \in 1..BuiltSpec.frame_len |->
                                Ingested((k - 1) * BuiltSpec.hop + i - 1) ])
        /\ CallDone => /\ Len(produced) = FrameCount(rd)
                       /\ Len(spec.overlap_buf) < spec.frame_len

(* A call on a later chunk is over: rows of overlapping zero-padded frames, *)
(* and a partial frame left in the buffer                                   *)
C21_Witness ==
    /\ wpc = "send"
    /\ 0 < blk /\ blk < rd
    /\ spec.hop = 5 /\ spec.fft_size = 32
    /\ Len(produced) >= 2
    /\ Len(spec.overlap_buf) > 0

(* C23: with a coefficient beta, the n-th sample appended to the overlap    *)
(* buffer is x[n] - beta * x[n-1] over the whole cumulative stream, x[n-1]  *)
(* being the previous raw sample, kept from call to call, and 0 before the  *)
(* first sample; with no coefficient the raw samples are appended as they   *)
(* are.                                                                     *)
C23_PreEmphasisContinuity ==
    [][ (wpc = "read" /\ wpc' = "frame") =>
          /\ spec'.overlap_buf =
                spec.overlap_buf \o [ i \in 1..(rd' - rd) |-> Ingested(rd + i - 1) ]
          /\ settings.pre_emphasis.some =>
                /\ spec'.prev_sample = IF rd' = 0 THEN 0 ELSE StreamSample(rd' - 1)
                /\ \A i \in 1..(rd' - rd) :
                      spec'.overlap_buf[Len(spec.overlap_buf) + i] =
                        StreamSample(rd + i - 1) - settings.pre_emphasis.beta *
                          (IF rd + i - 1 = 0 THEN 0 ELSE StreamSample(rd + i - 2))
          /\ ~settings.pre_emphasis.some =>
                spec'.overlap_buf = spec.overlap_buf \o Stream(rd, rd' - rd) ]_vars

(* A later call with a coefficient has taken its chunk: the first sample of *)
(* the chunk was filtered with the last raw sample of the call before       *)
C23_Witness ==
    /\ wpc = "frame"
    /\ spec.pre_emph = PreEmph(2)
    /\ 0 < blk /\ blk < rd
    /\ StreamSample(rd - blk - 1) # 0
    /\ spec.prev_sample = StreamSample(rd - 1)

(* C25: however the sample sequence is split into consecutive chunks, empty *)
(* ones included, once the chunks have been fed in order the rows produced, *)
(* the overlap buffer and the retained pre-emphasis sample are those of the *)
(* one call on the whole sequence.                                          *)
C25_ChunkingIndependence ==
    (wpc # "start" /\ CallDone) =>
        LET one == ProcessSamples(BuiltSpec, Stream(0, rd))
        IN  /\ produced = one.rows
            /\ spec.overlap_buf = one.spec.overlap_buf
            /\ spec.prev_sample = one.spec.prev_sample

(* A call on an empty chunk is over, after chunks that gave rows and left *)
(* part of a frame behind                                                 *)
C25_Witness ==
    /\ wpc = "send"
    /\ blk = 0
    /\ rows = << >>
    /\ Len(produced) >= 2
    /\ Len(spec.overlap_buf) > 0
    /\ spec.pre_emph.some

-----------------------------------------------------------------------------
(* A resample_drain call of run_wav's loop: its ratio, the buffer it is  *)
(* given, the position its loop ends at and the samples it discards      *)
PushStep == rd' = rd + 1 /\ wpc' \in { "read", "failed" }

CallNum == RatioNum(settings.sample_rate, wav.src_sr)

CallDen == RatioDen(settings.sample_rate, wav.src_sr)

CallBuf == Append(src_buf, WavSample(rd))

AfterLoop == DrainLoop(CallNum, CallDen, CallBuf, src_pos, out_buf)

Discarded == Len(CallBuf) - Len(src_buf')

Drains == PushStep /\ Len(CallBuf) >= 2 /\ CallNum > 0

C27_IndexSafety ==
    [][ /\ wpc' # "failed"
        /\ src_pos' >= 0
        /\ Drains => ~AfterLoop.panic
        /\ (PushStep /\ (Len(CallBuf) < 2 \/ CallNum <= 0)) =>
                    /\ out_buf' = out_buf
                    /\ src_buf' = CallBuf
                    /\ src_pos' = src_pos ]_vars

(* Calls from the middle of the stream have interpolated between two *)
(* samples at a fractional position                                  *)
C27_Witness ==
    /\ wpc = "read"
    /\ rd >= 4
    /\ Len(out_buf) >= 3
    /\ src_pos % F32Unit # 0

-----------------------------------------------------------------------------
(* C28: clear() not being called, the length of the history buffer is      *)
(* min(total_rows, max_history), total_rows being the number of rows the   *)
(* consumer has received since the start, and max_history is at least 16.  *)
C28_RowAccounting ==
    /\ total_rows = Len(pushed)
    /\ Len(buffer) = Min(total_rows, max_history)
    /\ max_history >= MinHistory

(* A tick is over and more rows were received than the history holds *)
C28_Witness ==
    /\ cpc = "poll"
    /\ total_rows > max_history
    /\ Len(buffer) = max_history
    /\ max_history = 17

-----------------------------------------------------------------------------
(* C30: zoom is at least 1 in every state; once a zoom key has been        *)
(* handled zoom lies in [1, 64], and once a floor key has been handled the *)
(* dB floor lies in [-140, -10]; and every row of the history has at least *)
(* 1 bin and no more bins than the row received had.                       *)
C30_DisplayBounds ==
    /\ zoom >= ZoomMin4
    /\ key \in { "+", "-" } => zoom \in ZoomMin4 .. ZoomMax4
    /\ key \in { "[", "]" } => db_floor \in (0 - 140) .. (0 - 10)
    /\ \A i \in 1..Len(buffer) :
          /\ Len(buffer[i]) >= 1
          /\ Len(buffer[i]) <= Len(PushOf(i).row)

(* Started with zoom 250, a zoom key has brought zoom to 64 and a row of 8 *)
(* bins was then stored with 1 bin                                         *)
C30_Witness ==
    /\ settings.zoom = 1000
    /\ zoom = ZoomMax4
    /\ buffer # << >>
    /\ PushOf(1).zoom = ZoomMax4
    /\ Len(PushOf(1).row) = 8
    /\ Len(buffer[1]) = 1

-----------------------------------------------------------------------------
(* A key event is handled: handle_key runs *)
KeyStep == cpc = "poll" /\ key' # NoKey

ExportCalls == Len(csv) + Len(png)

(* The export call a key step has made, if it made one *)
LastExport ==
    IF Len(csv') > Len(csv) THEN csv'[Len(csv')] ELSE png'[Len(png')]

PromptConsumes ==
    (KeyStep /\ InPrompt) =>
        /\ UNCHANGED << running, paused, zoom, db_floor, palette, style >>
        /\ key' = "Esc" =>
              /\ mode' = NormalMode
              /\ UNCHANGED << csv, png >>
        /\ key' \notin { "Esc", "Enter" } =>
              /\ mode'.kind = mode.kind
              /\ UNCHANGED << csv, png >>

(* C29, as stated: in PromptSave mode a key never changes running, paused, *)
(* zoom, floor, palette or style; Esc returns to Normal mode without an    *)
(* export, Enter makes exactly one export to the typed path and returns to *)
(* Normal mode (when the export succeeds); in Normal mode q or Esc sets    *)
(* running to false and no row is pushed after that.                       *)
C29_QuitPushesNothing ==
    [][ /\ PromptConsumes
        /\ (KeyStep /\ InPrompt /\ key' = "Enter") =>
              /\ ExportCalls' = ExportCalls + 1
              /\ LastExport.path = mode.input
              /\ LastExport.ok => mode' = NormalMode
        /\ (KeyStep /\ ~InPrompt /\ key' \in { "q", "Esc" }) => ~running'
        /\ ~running => pushed' = pushed ]_vars

(* C29, amended: as stated for the prompt, except that Enter returns to    *)
(* Normal mode when its one export call succeeds, and ends the loop with   *)
(* the mode unchanged when the call fails; and in Normal mode q or Esc     *)
(* sets running to false, after which no key is handled and the loop ends  *)
(* at its next test, the tick of the turn in which the key was handled     *)
(* still receiving and pushing rows.                                       *)
C29_KeyHandlingModes ==
    [][ /\ PromptConsumes
        /\ (KeyStep /\ InPrompt /\ key' = "Enter") =>
              /\ ExportCalls' = ExportCalls + 1
              /\ LastExport.path = mode.input
              /\ (mode.kind = "Csv") = (Len(csv') > Len(csv))
              /\ IF LastExport.ok
                 THEN mode' = NormalMode /\ cpc' = "tick"
                 ELSE mode' = mode /\ cpc' = "exited"
        /\ (KeyStep /\ ~InPrompt /\ key' \in { "q", "Esc" }) => ~running'
        /\ (running /\ ~running') =>
              (KeyStep /\ ~InPrompt /\ key' \in { "q", "Esc" })
        /\ ~running =>
              /\ cpc # "poll" /\ cpc' # "poll"
              /\ ~KeyStep
              /\ pushed' # pushed => cpc = "drain" ]_vars

(* A path was typed with the key q and a PNG exported to it; later q, in   *)
(* Normal mode, ended the run, and the tick of that turn has pushed a row  *)
C29_Witness ==
    /\ ~running
    /\ cpc = "drain"
    /\ drained > 0
    /\ mode = NormalMode
    /\ Len(png) = 1
    /\ png[1].path = << "q" >>
    /\ png[1].ok

-----------------------------------------------------------------------------
(* C26: while paused is true the consumer is never in its drain loop, and  *)
(* no step receives from the row channel or changes the history buffer or  *)
(* total_rows: the channel changes only by the worker's send.  In file     *)
(* mode the rows produced are, in order, the rows received, then the rows  *)
(* in the channel, then the rows the worker still holds, so none is lost   *)
(* or reordered while paused; and unless the app stays paused for ever     *)
(* every row produced is pushed.                                           *)
C26_Pause ==
    /\ [](paused => cpc # "drain")
    /\ [][ paused =>
             /\ UNCHANGED << buffer, total_rows, pushed >>
             /\ chan' # chan => (SendStep /\ chan' = Append(chan, Head(rows))) ]_vars
    /\ [](~ReceiverGone => produced = Received \o chan \o rows)
    /\ (<>[](~paused)) => <>(wpc = "done" /\ Received = produced)

(* Paused after rows were received: the channel is full and the worker *)
(* waits in send with the rows that are left                           *)
C26_Witness ==
    /\ paused
    /\ WorkerStalled
    /\ Len(pushed) > 0
    /\ Len(rows) > 0
    /\ Len(pushed) + Len(chan) + Len(rows) = Len(produced)

-----------------------------------------------------------------------------
(* The drain of a tick.  A file of 19 rows, with the worker and the        *)
(* consumer at any speed; and a file of 1029 rows, more than a tick        *)
(* drains, with a worker faster than the consumer: the consumer moves only *)
(* while the worker waits in send or has finished.                         *)

MidDrained == 1020

LongFile == Scenario(DefaultCli, [ DefaultWav EXCEPT !.frames = 1045 ])

DrainScenarios ==
    { Scenario(DefaultCli, [ DefaultWav EXCEPT !.frames = 34 ]), LongFile }

(* The state the long file is in late in its first tick: the worker has   *)
(* read the file, processed its two chunks and sent the last row; the     *)
(* consumer, in its first loop turn, has received MidDrained rows and is  *)
(* in the drain loop with the remaining rows waiting in the channel.  The  *)
(* run of the long file from its start passes through this state; it is   *)
(* a starting state too, so that the end of that turn is a few steps away. *)
MidTick ==
    /\ cli = LongFile.cli
    /\ wav = LongFile.wav
    /\ dev = LongFile.dev
    /\ input_kind = LongFile.kind
    /\ settings = MainSettings(LongFile.cli)
    /\ running = TRUE
    /\ paused = FALSE
    /\ zoom = MainSettings(LongFile.cli).zoom
    /\ max_history = AppMaxHistory(MainSettings(LongFile.cli))
    /\ produced = [ j \in 1..RefRowCount |-> RefRow(j) ]
    /\ raw_rows = [ j \in 1..RefRowCount |-> RefRow(j) ]
    /\ fed = [ k \in 1..RefChunkCount |-> RefChunk(k) ]
    /\ pushed = [ j \in 1..MidDrained |-> [ row |-> RefRow(j), zoom |-> zoom ] ]
    /\ chan = [ j \in 1..(RefRowCount - MidDrained) |-> RefRow(MidDrained + j) ]
    /\ buffer = [ i \in 1..max_history |-> RefRow(MidDrained + 1 - i) ]
    /\ total_rows = MidDrained
    /\ cpc = "drain"
    /\ drained = MidDrained
    /\ keys = 0
    /\ wpc = "done"
    /\ phase = "flush"
    /\ spec = [ RefSpec EXCEPT
                  !.overlap_buf = [ i \in 1..(RefSpec.frame_len - 1) |->
                                      RefSample(RefLen - RefSpec.frame_len + 1 + i) ] ]
    /\ rd = wav.frames
    /\ sum = 0
    /\ cnt = 0
    /\ src_buf = << WavSample(wav.frames - 1) >>
    /\ src_pos = 0
    /\ out_buf = << >>
    /\ blk = RefLen - Block
    /\ mic_buf = << >>
    /\ rows = << >>
    /\ raw = << >>
    /\ captured = 0
    /\ last_cb = [ n |-> NoBad, full |-> FALSE, stalled |-> FALSE ]
    /\ mic_recv = << >>
    /\ db_floor = MainSettings(LongFile.cli).db_floor
    /\ palette = MainSettings(LongFile.cli).palette
    /\ style = MainSettings(LongFile.cli).style
    /\ csv = << >>
    /\ mode = [ kind |-> "Normal", input |-> << >> ]
    /\ key = "None"
    /\ png = << >>
    /\ emitted = 0
    /\ clock = 0
    /\ th = [ target |-> 0, elapsed |-> 0, slept |-> 0 ]

InitDrain == (\E sc \in DrainScenarios : InitOf(sc)) \/ MidTick

WorkerWaits == wpc \in { "done", "failed" } \/ WorkerStalled

FastWorker == wav.frames > Block

PacedTicks == (FastWorker => WorkerWaits) /\ Ticks

NextDrain == Worker \/ PacedTicks

SpecDrain == InitDrain /\ [][NextDrain]_vars

(* A step of the consumer *)
ConsumerStep == << cpc, drained, pushed >>' # << cpc, drained, pushed >>

(* C24: rows are received only in the drain loop of a tick, one at a time  *)
(* from the front of the channel, by a receive that never waits; the loop  *)
(* stops as soon as the channel is empty, and after the push that makes    *)
(* drained exceed 1024, so that a tick pushes at most 1025 rows; the rows  *)
(* not drained stay in the channel, in order.                              *)
C24_PerTickDrain ==
    /\ [](drained <= DrainLimit)
    /\ [](cpc = "drain" => ENABLED TryRecv)
    /\ [][ /\ pushed' # pushed => (cpc = "drain" /\ chan # << >>)
           /\ (cpc = "drain" /\ ConsumerStep) =>
                 IF chan = << >>
                 THEN /\ cpc' # "drain"
                      /\ UNCHANGED << pushed, buffer, total_rows >>
                 ELSE /\ pushed' = Append(pushed, [ row |-> Head(chan), zoom |-> zoom ])
                      /\ total_rows' = total_rows + 1
                      /\ chan' = Tail(chan) \/ (~running /\ chan' = << >>)
                      /\ (cpc' = "drain") = (drained + 1 <= DrainLimit)
                      /\ cpc' = "drain" => drained' = drained + 1 ]_vars

(* A tick has ended at the limit: 1025 rows pushed, all in that tick, and *)
(* the rows it left are in the channel                                    *)
C24_Witness ==
    /\ cpc = "poll"
    /\ total_rows = DrainLimit + 1
    /\ chan # << >>
    /\ wpc = "done"
    /\ produced = Received \o chan

=============================================================================
